---- MODULE Spec2Model ----
(***************************************************************************)
(* jstok: resumable, non-recursive JSON tokenizer (jstok.h).               *)
(*                                                                         *)
(* The input buffer is a sequence of bytes, each written as a one-character *)
(* string.  Offsets are the C offsets (0-based): byte i of the buffer is    *)
(* json[i + 1], token i of the token array is tokens[i + 1].  The token     *)
(* array holds the slots written so far (slots [0, toknext) in token mode). *)
(* The frame stack holds the frames [0, depth).                             *)
(***************************************************************************)
EXTENDS Integers, Sequences, FiniteSets, TLC

VARIABLES json,        \* the caller's buffer (same base pointer for every call)
          json_len,    \* the length passed to the latest jstok_parse call
          p,           \* jstok_parser
          tokens,      \* the caller's token array, slots [0, toknext)
          ret,         \* return value of the latest jstok_parse call
          call,        \* the latest jstok_parse call since jstok_init: "none" yet,
                       \* the "first", one "resumed" with a longer length than the
                       \* call before it, one "repeated" with the same length
          strict,      \* build has JSTOK_STRICT defined
          tokens_null, \* the caller passes tokens == NULL (count-only mode)
          max_tokens,  \* the capacity the caller passes
          max_depth    \* the build's JSTOK_MAX_DEPTH

\* The caller of jstok_sse_next
VARIABLES buf,         \* the stream buffer (same base pointer for every call)
          len,         \* the length passed to the latest jstok_sse_next call
          sse_pos,     \* the caller's cursor *pos
          pos_in,      \* the cursor the caller started with
          out,         \* the caller's span *out: p an offset into buf, n a length
          sse_ret,     \* return value of the latest jstok_sse_next call
          sse_call,    \* "none" before the first jstok_sse_next call, then "called"
          spans        \* the spans of the calls that returned 1, in order

sse_vars == <<buf, len, sse_pos, pos_in, out, sse_ret, sse_call, spans>>

\* The caller of jstok_skip
VARIABLES skip_toks,   \* the token array passed to the latest jstok_skip call
          skip_count,  \* the count passed to it
          skip_i,      \* the index passed to it
          skip_ret,    \* its return value
          skip_call    \* "called" when jstok_skip was called since the latest
                       \* jstok_parse or jstok_init, "none" otherwise

skip_vars == <<skip_toks, skip_count, skip_i, skip_ret, skip_call>>

vars == <<json, json_len, p, tokens, ret, call, strict, tokens_null, max_tokens, max_depth,
          buf, len, sse_pos, pos_in, out, sse_ret, sse_call, spans,
          skip_toks, skip_count, skip_i, skip_ret, skip_call>>

-----------------------------------------------------------------------------
(* Bounds of the model *)

MaxLen == 4

\* The deepest nesting limit of the builds with a small JSTOK_MAX_DEPTH
MaxNest == 2

\* The most lines of a stream buffer
MaxLines == 2

-----------------------------------------------------------------------------
(* Enumerations and configuration macros *)

JSTOK_MAX_DEPTH == 64

JSTOK_ERROR_NOMEM == -1
JSTOK_ERROR_INVAL == -2
JSTOK_ERROR_PART == -3
JSTOK_ERROR_DEPTH == -4

JSTOK_OBJECT == "OBJECT"
JSTOK_ARRAY == "ARRAY"
JSTOK_STRING == "STRING"
JSTOK_PRIMITIVE == "PRIMITIVE"

JSTOK_ST_OBJ_KEY_OR_END == "OBJ_KEY_OR_END"
JSTOK_ST_OBJ_KEY == "OBJ_KEY"
JSTOK_ST_OBJ_COLON == "OBJ_COLON"
JSTOK_ST_OBJ_VALUE == "OBJ_VALUE"
JSTOK_ST_OBJ_COMMA_OR_END == "OBJ_COMMA_OR_END"
JSTOK_ST_ARR_VALUE_OR_END == "ARR_VALUE_OR_END"
JSTOK_ST_ARR_VALUE == "ARR_VALUE"
JSTOK_ST_ARR_COMMA_OR_END == "ARR_COMMA_OR_END"

-----------------------------------------------------------------------------
(* Bytes *)

\* The byte value of each character the model feeds the parser.
Ord ==
  [c \in {"\t", "\n", "\r", " ", "\"", "+", ",", "-", ".", "/", "0", "1", "2",
          "9", ":", "A", "E", "F", "[", "\\", "]", "a", "b", "e", "f", "l",
          "n", "r", "s", "t", "u", "x", "{", "}"} |->
     CASE c = "\t" -> 9   [] c = "\n" -> 10  [] c = "\r" -> 13  [] c = " " -> 32
       [] c = "\"" -> 34  [] c = "+" -> 43   [] c = "," -> 44   [] c = "-" -> 45
       [] c = "." -> 46   [] c = "/" -> 47   [] c = "0" -> 48   [] c = "1" -> 49
       [] c = "2" -> 50   [] c = "9" -> 57   [] c = ":" -> 58   [] c = "A" -> 65
       [] c = "E" -> 69   [] c = "F" -> 70   [] c = "[" -> 91   [] c = "\\" -> 92
       [] c = "]" -> 93   [] c = "a" -> 97   [] c = "b" -> 98   [] c = "e" -> 101
       [] c = "f" -> 102  [] c = "l" -> 108  [] c = "n" -> 110  [] c = "r" -> 114
       [] c = "s" -> 115  [] c = "t" -> 116  [] c = "u" -> 117  [] c = "x" -> 120
       [] c = "{" -> 123  [] c = "}" -> 125]

jstok_is_space(c) == c = " " \/ c = "\t" \/ c = "\n" \/ c = "\r"

jstok_is_digit(c) == Ord[c] >= Ord["0"] /\ Ord[c] <= Ord["9"]

jstok_is_hex(c) ==
  \/ jstok_is_digit(c)
  \/ (Ord[c] >= Ord["a"] /\ Ord[c] <= Ord["f"])
  \/ (Ord[c] >= Ord["A"] /\ Ord[c] <= Ord["F"])

jstok_is_delim(c) == c = "," \/ c = "]" \/ c = "}" \/ jstok_is_space(c)

\* json[i] of the C code, for a call context cx = [json, json_len, ...]
At(cx, i) == cx.json[i + 1]

-----------------------------------------------------------------------------
(* Parser primitives.  A machine m = [p |-> jstok_parser, toks |-> token    *)
(* array]; every operator that models a C function returning int yields     *)
(* [m |-> machine after the call, r |-> returned int].                      *)

jstok_set_error(m, code, pos) ==
  [m EXCEPT !.p.error_code = code, !.p.error_pos = pos]

jstok_init_p ==
  [pos |-> 0, toknext |-> 0, depth |-> 0, root_done |-> FALSE,
   error_pos |-> -1, error_code |-> 0, stack |-> <<>>]

\* jstok_push that refuses a frame one level too late
jstok_push_OneMore(m, cx, type, st, tok) ==
  IF m.p.depth > cx.max_depth
    THEN [m |-> jstok_set_error(m, JSTOK_ERROR_DEPTH, m.p.pos), r |-> JSTOK_ERROR_DEPTH]
    ELSE [m |-> [m EXCEPT !.p.stack = Append(@, [type |-> type, st |-> st, tok |-> tok]),
                          !.p.depth = @ + 1],
          r |-> 0]

jstok_push(m, cx, type, st, tok) ==
  IF m.p.depth >= cx.max_depth
    THEN [m |-> jstok_set_error(m, JSTOK_ERROR_DEPTH, m.p.pos), r |-> JSTOK_ERROR_DEPTH]
    ELSE [m |-> [m EXCEPT !.p.stack = Append(@, [type |-> type, st |-> st, tok |-> tok]),
                          !.p.depth = @ + 1],
          r |-> 0]

jstok_pop(m) ==
  IF m.p.depth > 0
    THEN [m EXCEPT !.p.stack = SubSeq(@, 1, Len(@) - 1), !.p.depth = @ - 1]
    ELSE m

\* jstok_top returns NULL at the root: HasTop is the null test, Top the frame
HasTop(m) == m.p.depth > 0

Top(m) == m.p.stack[m.p.depth]

SetTopSt(m, st) == [m EXCEPT !.p.stack[m.p.depth].st = st]

\* jstok_new_token whose count-only branch forgets p->toknext++
jstok_new_token_CountOnlyNoAdvance(m, cx, type, start, end) ==
  IF ~cx.tokens_null
    THEN IF m.p.toknext >= cx.max_tokens
           THEN [m |-> jstok_set_error(m, JSTOK_ERROR_NOMEM, m.p.pos), r |-> JSTOK_ERROR_NOMEM]
           ELSE [m |-> [m EXCEPT !.p.toknext = @ + 1,
                                 !.toks = Append(@, [type |-> type, start |-> start,
                                                     end |-> end, size |-> 0])],
                 r |-> m.p.toknext]
    ELSE [m |-> m, r |-> m.p.toknext]

\* jstok_new_token that writes the token without looking at the capacity
jstok_new_token_Unchecked(m, cx, type, start, end) ==
  IF ~cx.tokens_null
    THEN [m |-> [m EXCEPT !.p.toknext = @ + 1,
                          !.toks = Append(@, [type |-> type, start |-> start,
                                              end |-> end, size |-> 0])],
          r |-> m.p.toknext]
    ELSE [m |-> [m EXCEPT !.p.toknext = @ + 1], r |-> m.p.toknext]

\* jstok_new_token that takes the array to be full one token too late
jstok_new_token_OneMore(m, cx, type, start, end) ==
  IF ~cx.tokens_null
    THEN IF m.p.toknext > cx.max_tokens
           THEN [m |-> jstok_set_error(m, JSTOK_ERROR_NOMEM, m.p.pos), r |-> JSTOK_ERROR_NOMEM]
           ELSE [m |-> [m EXCEPT !.p.toknext = @ + 1,
                                 !.toks = Append(@, [type |-> type, start |-> start,
                                                     end |-> end, size |-> 0])],
                 r |-> m.p.toknext]
    ELSE [m |-> [m EXCEPT !.p.toknext = @ + 1], r |-> m.p.toknext]

jstok_new_token(m, cx, type, start, end) ==
  IF ~cx.tokens_null
    THEN IF m.p.toknext >= cx.max_tokens
           THEN [m |-> jstok_set_error(m, JSTOK_ERROR_NOMEM, m.p.pos), r |-> JSTOK_ERROR_NOMEM]
           ELSE [m |-> [m EXCEPT !.p.toknext = @ + 1,
                                 !.toks = Append(@, [type |-> type, start |-> start,
                                                     end |-> end, size |-> 0])],
                 r |-> m.p.toknext]
    ELSE [m |-> [m EXCEPT !.p.toknext = @ + 1], r |-> m.p.toknext]

\* jstok_inc_container_size that counts the value in the token emitted last
jstok_inc_container_size_LastToken(m, cx) ==
  IF ~HasTop(m) THEN m
  ELSE IF cx.tokens_null THEN m
  ELSE IF Top(m).tok < 0 THEN m
  ELSE [m EXCEPT !.toks[Len(m.toks)].size = @ + 1]

jstok_inc_container_size(m, cx) ==
  IF ~HasTop(m) THEN m
  ELSE IF cx.tokens_null THEN m
  ELSE IF Top(m).tok < 0 THEN m
  ELSE [m EXCEPT !.toks[Top(m).tok + 1].size = @ + 1]

\* jstok_accept_value that also takes a value where an object expects its
\* first key
jstok_accept_value_BeforeKey(m, cx) ==
  IF ~HasTop(m)
    THEN IF cx.strict /\ m.p.root_done
           THEN [m |-> jstok_set_error(m, JSTOK_ERROR_INVAL, m.p.pos), r |-> JSTOK_ERROR_INVAL]
           ELSE [m |-> [m EXCEPT !.p.root_done = TRUE], r |-> 0]
  ELSE IF Top(m).type = JSTOK_ARRAY
    THEN IF Top(m).st # JSTOK_ST_ARR_VALUE_OR_END /\ Top(m).st # JSTOK_ST_ARR_VALUE
           THEN [m |-> jstok_set_error(m, JSTOK_ERROR_INVAL, m.p.pos), r |-> JSTOK_ERROR_INVAL]
           ELSE [m |-> SetTopSt(jstok_inc_container_size(m, cx), JSTOK_ST_ARR_COMMA_OR_END),
                 r |-> 0]
  ELSE IF Top(m).type = JSTOK_OBJECT
    THEN IF Top(m).st # JSTOK_ST_OBJ_VALUE /\ Top(m).st # JSTOK_ST_OBJ_KEY_OR_END
           THEN [m |-> jstok_set_error(m, JSTOK_ERROR_INVAL, m.p.pos), r |-> JSTOK_ERROR_INVAL]
           ELSE [m |-> SetTopSt(jstok_inc_container_size(m, cx), JSTOK_ST_OBJ_COMMA_OR_END),
                 r |-> 0]
  ELSE [m |-> jstok_set_error(m, JSTOK_ERROR_INVAL, m.p.pos), r |-> JSTOK_ERROR_INVAL]

\* jstok_accept_value that takes a further root value in every build
jstok_accept_value_AnyRoot(m, cx) ==
  IF ~HasTop(m)
    THEN IF FALSE
           THEN [m |-> jstok_set_error(m, JSTOK_ERROR_INVAL, m.p.pos), r |-> JSTOK_ERROR_INVAL]
           ELSE [m |-> [m EXCEPT !.p.root_done = TRUE], r |-> 0]
  ELSE IF Top(m).type = JSTOK_ARRAY
    THEN IF Top(m).st # JSTOK_ST_ARR_VALUE_OR_END /\ Top(m).st # JSTOK_ST_ARR_VALUE
           THEN [m |-> jstok_set_error(m, JSTOK_ERROR_INVAL, m.p.pos), r |-> JSTOK_ERROR_INVAL]
           ELSE [m |-> SetTopSt(jstok_inc_container_size(m, cx), JSTOK_ST_ARR_COMMA_OR_END),
                 r |-> 0]
  ELSE IF Top(m).type = JSTOK_OBJECT
    THEN IF Top(m).st # JSTOK_ST_OBJ_VALUE
           THEN [m |-> jstok_set_error(m, JSTOK_ERROR_INVAL, m.p.pos), r |-> JSTOK_ERROR_INVAL]
           ELSE [m |-> SetTopSt(jstok_inc_container_size(m, cx), JSTOK_ST_OBJ_COMMA_OR_END),
                 r |-> 0]
  ELSE [m |-> jstok_set_error(m, JSTOK_ERROR_INVAL, m.p.pos), r |-> JSTOK_ERROR_INVAL]

\* jstok_accept_value that refuses a further root value in every build
jstok_accept_value_SingleRoot(m, cx) ==
  IF ~HasTop(m)
    THEN IF m.p.root_done
           THEN [m |-> jstok_set_error(m, JSTOK_ERROR_INVAL, m.p.pos), r |-> JSTOK_ERROR_INVAL]
           ELSE [m |-> [m EXCEPT !.p.root_done = TRUE], r |-> 0]
  ELSE IF Top(m).type = JSTOK_ARRAY
    THEN IF Top(m).st # JSTOK_ST_ARR_VALUE_OR_END /\ Top(m).st # JSTOK_ST_ARR_VALUE
           THEN [m |-> jstok_set_error(m, JSTOK_ERROR_INVAL, m.p.pos), r |-> JSTOK_ERROR_INVAL]
           ELSE [m |-> SetTopSt(jstok_inc_container_size(m, cx), JSTOK_ST_ARR_COMMA_OR_END),
                 r |-> 0]
  ELSE IF Top(m).type = JSTOK_OBJECT
    THEN IF Top(m).st # JSTOK_ST_OBJ_VALUE
           THEN [m |-> jstok_set_error(m, JSTOK_ERROR_INVAL, m.p.pos), r |-> JSTOK_ERROR_INVAL]
           ELSE [m |-> SetTopSt(jstok_inc_container_size(m, cx), JSTOK_ST_OBJ_COMMA_OR_END),
                 r |-> 0]
  ELSE [m |-> jstok_set_error(m, JSTOK_ERROR_INVAL, m.p.pos), r |-> JSTOK_ERROR_INVAL]

jstok_accept_value(m, cx) ==
  IF ~HasTop(m)
    THEN IF cx.strict /\ m.p.root_done
           THEN [m |-> jstok_set_error(m, JSTOK_ERROR_INVAL, m.p.pos), r |-> JSTOK_ERROR_INVAL]
           ELSE [m |-> [m EXCEPT !.p.root_done = TRUE], r |-> 0]
  ELSE IF Top(m).type = JSTOK_ARRAY
    THEN IF Top(m).st # JSTOK_ST_ARR_VALUE_OR_END /\ Top(m).st # JSTOK_ST_ARR_VALUE
           THEN [m |-> jstok_set_error(m, JSTOK_ERROR_INVAL, m.p.pos), r |-> JSTOK_ERROR_INVAL]
           ELSE [m |-> SetTopSt(jstok_inc_container_size(m, cx), JSTOK_ST_ARR_COMMA_OR_END),
                 r |-> 0]
  ELSE IF Top(m).type = JSTOK_OBJECT
    THEN IF Top(m).st # JSTOK_ST_OBJ_VALUE
           THEN [m |-> jstok_set_error(m, JSTOK_ERROR_INVAL, m.p.pos), r |-> JSTOK_ERROR_INVAL]
           ELSE [m |-> SetTopSt(jstok_inc_container_size(m, cx), JSTOK_ST_OBJ_COMMA_OR_END),
                 r |-> 0]
  ELSE [m |-> jstok_set_error(m, JSTOK_ERROR_INVAL, m.p.pos), r |-> JSTOK_ERROR_INVAL]

\* jstok_accept_key that counts the key as a child of the object
jstok_accept_key_CountsKey(m) ==
  IF ~HasTop(m) \/ Top(m).type # JSTOK_OBJECT
    THEN [m |-> jstok_set_error(m, JSTOK_ERROR_INVAL, m.p.pos), r |-> JSTOK_ERROR_INVAL]
  ELSE IF Top(m).st # JSTOK_ST_OBJ_KEY_OR_END /\ Top(m).st # JSTOK_ST_OBJ_KEY
    THEN [m |-> jstok_set_error(m, JSTOK_ERROR_INVAL, m.p.pos), r |-> JSTOK_ERROR_INVAL]
  ELSE [m |-> SetTopSt(IF Top(m).tok >= 0 /\ Top(m).tok < Len(m.toks)
                         THEN [m EXCEPT !.toks[Top(m).tok + 1].size = @ + 1]
                         ELSE m,
                       JSTOK_ST_OBJ_COLON),
        r |-> 0]

jstok_accept_key(m) ==
  IF ~HasTop(m) \/ Top(m).type # JSTOK_OBJECT
    THEN [m |-> jstok_set_error(m, JSTOK_ERROR_INVAL, m.p.pos), r |-> JSTOK_ERROR_INVAL]
  ELSE IF Top(m).st # JSTOK_ST_OBJ_KEY_OR_END /\ Top(m).st # JSTOK_ST_OBJ_KEY
    THEN [m |-> jstok_set_error(m, JSTOK_ERROR_INVAL, m.p.pos), r |-> JSTOK_ERROR_INVAL]
  ELSE [m |-> SetTopSt(m, JSTOK_ST_OBJ_COLON), r |-> 0]

-----------------------------------------------------------------------------
(* Lexical recognizers *)

\* The scanning loop of jstok_parse_string_token from position i (p->pos),
\* after the opening quote.  Yields [r, at]: r = 0 with at = the closing
\* quote, or an error code with at = p->pos when the error is raised.
RECURSIVE StringScan(_, _)
StringScan(cx, i) ==
  IF i >= cx.json_len THEN [r |-> JSTOK_ERROR_PART, at |-> i]
  ELSE LET c == At(cx, i) IN
    IF Ord[c] < 32 THEN [r |-> JSTOK_ERROR_INVAL, at |-> i]
    ELSE IF c = "\"" THEN [r |-> 0, at |-> i]
    ELSE IF c = "\\" THEN
      IF i + 1 >= cx.json_len THEN [r |-> JSTOK_ERROR_PART, at |-> i + 1]
      ELSE LET e == At(cx, i + 1) IN
        IF e \in {"\"", "\\", "/", "b", "f", "n", "r", "t"} THEN StringScan(cx, i + 2)
        ELSE IF e = "u" THEN
          \* for (i = 0; i < 4; i++): the first k in 1..4 that ends the loop
          LET Stop(k) == i + 1 + k >= cx.json_len \/ ~jstok_is_hex(At(cx, i + 1 + k))
              bad == {k \in 1..4 : Stop(k) /\ \A j \in 1..(k - 1) : ~Stop(j)}
          IN IF bad = {} THEN StringScan(cx, i + 6)
             ELSE LET k == CHOOSE k \in bad : TRUE IN
                  IF i + 1 + k >= cx.json_len
                    THEN [r |-> JSTOK_ERROR_PART, at |-> i + 1 + k]
                    ELSE [r |-> JSTOK_ERROR_INVAL, at |-> i + 1 + k]
        ELSE [r |-> JSTOK_ERROR_INVAL, at |-> i + 1]
    ELSE StringScan(cx, i + 1)

\* A string token that rewinds to the start of the buffer on Partial
StringTokenFrom_RewindsToStart(m, cx, start_quote, sc) ==
  IF sc.r = JSTOK_ERROR_PART
    THEN [m |-> [jstok_set_error(m, JSTOK_ERROR_PART, sc.at) EXCEPT !.p.pos = 0],
          r |-> JSTOK_ERROR_PART]
  ELSE IF sc.r = JSTOK_ERROR_INVAL
    THEN [m |-> [jstok_set_error(m, JSTOK_ERROR_INVAL, sc.at) EXCEPT !.p.pos = sc.at],
          r |-> JSTOK_ERROR_INVAL]
  ELSE jstok_new_token([m EXCEPT !.p.pos = sc.at], cx, JSTOK_STRING, start_quote + 1, sc.at)

\* A string token that leaves pos where the scan ran out of bytes
StringTokenFrom_NoRewind(m, cx, start_quote, sc) ==
  IF sc.r = JSTOK_ERROR_PART
    THEN [m |-> [jstok_set_error(m, JSTOK_ERROR_PART, sc.at) EXCEPT !.p.pos = sc.at],
          r |-> JSTOK_ERROR_PART]
  ELSE IF sc.r = JSTOK_ERROR_INVAL
    THEN [m |-> [jstok_set_error(m, JSTOK_ERROR_INVAL, sc.at) EXCEPT !.p.pos = sc.at],
          r |-> JSTOK_ERROR_INVAL]
  ELSE jstok_new_token([m EXCEPT !.p.pos = sc.at], cx, JSTOK_STRING, start_quote + 1, sc.at)

\* The token of a string whose closing quote the scan found, starting at the
\* opening quote
StringTokenFrom_QuoteIncluded(m, cx, start_quote, sc) ==
  IF sc.r = JSTOK_ERROR_PART
    THEN [m |-> [jstok_set_error(m, JSTOK_ERROR_PART, sc.at) EXCEPT !.p.pos = start_quote],
          r |-> JSTOK_ERROR_PART]
  ELSE IF sc.r = JSTOK_ERROR_INVAL
    THEN [m |-> [jstok_set_error(m, JSTOK_ERROR_INVAL, sc.at) EXCEPT !.p.pos = sc.at],
          r |-> JSTOK_ERROR_INVAL]
  ELSE jstok_new_token([m EXCEPT !.p.pos = sc.at], cx, JSTOK_STRING, start_quote, sc.at)

\* jstok_parse_string_token once the scan from start_quote + 1 has stopped
\* with sc: rewind on Partial, stay at the error byte on Invalid, emit the
\* token [start_quote + 1, closing quote) otherwise
StringTokenFrom(m, cx, start_quote, sc) ==
  IF sc.r = JSTOK_ERROR_PART
    THEN [m |-> [jstok_set_error(m, JSTOK_ERROR_PART, sc.at) EXCEPT !.p.pos = start_quote],
          r |-> JSTOK_ERROR_PART]
  ELSE IF sc.r = JSTOK_ERROR_INVAL
    THEN [m |-> [jstok_set_error(m, JSTOK_ERROR_INVAL, sc.at) EXCEPT !.p.pos = sc.at],
          r |-> JSTOK_ERROR_INVAL]
  ELSE jstok_new_token([m EXCEPT !.p.pos = sc.at], cx, JSTOK_STRING, start_quote + 1, sc.at)

\* if (i < 0) return i; p->pos++ (consume closing quote); return i
StringTokenEnd(nt) ==
  IF nt.r < 0 THEN nt ELSE [m |-> [nt.m EXCEPT !.p.pos = @ + 1], r |-> nt.r]

jstok_parse_string_token(m, cx) ==
  IF m.p.pos >= cx.json_len \/ At(cx, m.p.pos) # "\""
    THEN [m |-> jstok_set_error(m, JSTOK_ERROR_INVAL, m.p.pos), r |-> JSTOK_ERROR_INVAL]
    ELSE StringTokenEnd(StringTokenFrom(m, cx, m.p.pos, StringScan(cx, m.p.pos + 1)))

\* The literals as byte sequences
LitTrue == <<"t", "r", "u", "e">>
LitFalse == <<"f", "a", "l", "s", "e">>
LitNull == <<"n", "u", "l", "l">>

\* jstok_parse_literal that reports JSTOK_ERROR_PART when the buffer ends
\* right after the literal
jstok_parse_literal_PartAtEnd(m, cx, lit) ==
  LET Stop(i) == m.p.pos + i >= cx.json_len \/ At(cx, m.p.pos + i) # lit[i + 1]
      bad == {i \in 0..(Len(lit) - 1) : Stop(i) /\ \A j \in 0..(i - 1) : ~Stop(j)}
  IN IF bad # {}
       THEN LET i == CHOOSE i \in bad : TRUE IN
            IF m.p.pos + i >= cx.json_len
              THEN [r |-> JSTOK_ERROR_PART, at |-> m.p.pos + i]
              ELSE [r |-> JSTOK_ERROR_INVAL, at |-> m.p.pos + i]
     ELSE IF m.p.pos + Len(lit) >= cx.json_len
       THEN [r |-> JSTOK_ERROR_PART, at |-> m.p.pos + Len(lit)]
     ELSE IF ~jstok_is_delim(At(cx, m.p.pos + Len(lit)))
       THEN [r |-> JSTOK_ERROR_INVAL, at |-> m.p.pos + Len(lit)]
     ELSE [r |-> Len(lit), at |-> -1]

\* jstok_parse_literal: yields [r, at]; r = the literal's length, or an error
\* code with at = the error position.  p->pos is not moved.
jstok_parse_literal(m, cx, lit) ==
  LET Stop(i) == m.p.pos + i >= cx.json_len \/ At(cx, m.p.pos + i) # lit[i + 1]
      bad == {i \in 0..(Len(lit) - 1) : Stop(i) /\ \A j \in 0..(i - 1) : ~Stop(j)}
  IN IF bad # {}
       THEN LET i == CHOOSE i \in bad : TRUE IN
            IF m.p.pos + i >= cx.json_len
              THEN [r |-> JSTOK_ERROR_PART, at |-> m.p.pos + i]
              ELSE [r |-> JSTOK_ERROR_INVAL, at |-> m.p.pos + i]
     ELSE IF m.p.pos + Len(lit) < cx.json_len /\ ~jstok_is_delim(At(cx, m.p.pos + Len(lit)))
       THEN [r |-> JSTOK_ERROR_INVAL, at |-> m.p.pos + Len(lit)]
     ELSE [r |-> Len(lit), at |-> -1]

\* A digit scan bounded by the end of the allocation, not by json_len
RECURSIVE SkipDigits_PastLength(_, _)
SkipDigits_PastLength(cx, i) ==
  IF i < Len(cx.json) /\ jstok_is_digit(At(cx, i))
    THEN SkipDigits_PastLength(cx, i + 1)
    ELSE i

\* while (i < json_len && jstok_is_digit(json[i])) i++;
RECURSIVE SkipDigits(_, _)
SkipDigits(cx, i) ==
  IF i < cx.json_len /\ jstok_is_digit(At(cx, i)) THEN SkipDigits(cx, i + 1) ELSE i

\* The end of a number span that takes the end of the buffer for a delimiter
NumberEnd_CommitsAtEnd(cx, i) ==
  IF i >= cx.json_len THEN [r |-> 0, at |-> i]
  ELSE IF ~jstok_is_delim(At(cx, i)) THEN [r |-> JSTOK_ERROR_INVAL, at |-> i]
  ELSE [r |-> 0, at |-> i]

\* The end of jstok_parse_number_span, with i after the number's last byte:
\* never commit at the end of the buffer, require a delimiter
NumberEnd(cx, i) ==
  IF i >= cx.json_len THEN [r |-> JSTOK_ERROR_PART, at |-> i]
  ELSE IF ~jstok_is_delim(At(cx, i)) THEN [r |-> JSTOK_ERROR_INVAL, at |-> i]
  ELSE [r |-> 0, at |-> i]

\* A number span that takes the digits after a leading zero in every build
jstok_parse_number_span_ZeroLedRun(m, cx) ==
  LET Part(i) == [r |-> JSTOK_ERROR_PART, at |-> i]
      Inval(i) == [r |-> JSTOK_ERROR_INVAL, at |-> i]
      ExpPart(i) ==
        IF i < cx.json_len /\ (At(cx, i) = "e" \/ At(cx, i) = "E")
          THEN IF i + 1 >= cx.json_len THEN Part(i + 1)
               ELSE LET j == IF At(cx, i + 1) = "+" \/ At(cx, i + 1) = "-"
                                THEN i + 2 ELSE i + 1 IN
                    IF j >= cx.json_len THEN Part(j)
                    ELSE IF ~jstok_is_digit(At(cx, j)) THEN Inval(j)
                    ELSE NumberEnd(cx, SkipDigits(cx, j))
          ELSE NumberEnd(cx, i)
      FracPart(i) ==
        IF i < cx.json_len /\ At(cx, i) = "."
          THEN IF i + 1 >= cx.json_len THEN Part(i + 1)
               ELSE IF ~jstok_is_digit(At(cx, i + 1)) THEN Inval(i + 1)
               ELSE ExpPart(SkipDigits(cx, i + 1))
          ELSE ExpPart(i)
      IntPart(i) ==
        IF At(cx, i) = "0"
          THEN FracPart(SkipDigits(cx, i + 1))
        ELSE IF Ord[At(cx, i)] >= Ord["1"] /\ Ord[At(cx, i)] <= Ord["9"]
          THEN FracPart(SkipDigits(cx, i + 1))
        ELSE Inval(i)
  IN IF m.p.pos >= cx.json_len THEN Part(m.p.pos)
     ELSE IF At(cx, m.p.pos) = "-"
       THEN IF m.p.pos + 1 >= cx.json_len THEN Part(m.p.pos + 1) ELSE IntPart(m.p.pos + 1)
     ELSE IntPart(m.p.pos)

\* jstok_parse_number_span: yields [r, at]; r = 0 with at = *out_end, or an
\* error code with at = the error position.  p->pos is not moved.
jstok_parse_number_span(m, cx) ==
  LET Part(i) == [r |-> JSTOK_ERROR_PART, at |-> i]
      Inval(i) == [r |-> JSTOK_ERROR_INVAL, at |-> i]
      ExpPart(i) ==
        IF i < cx.json_len /\ (At(cx, i) = "e" \/ At(cx, i) = "E")
          THEN IF i + 1 >= cx.json_len THEN Part(i + 1)
               ELSE LET j == IF At(cx, i + 1) = "+" \/ At(cx, i + 1) = "-"
                                THEN i + 2 ELSE i + 1 IN
                    IF j >= cx.json_len THEN Part(j)
                    ELSE IF ~jstok_is_digit(At(cx, j)) THEN Inval(j)
                    ELSE NumberEnd(cx, SkipDigits(cx, j))
          ELSE NumberEnd(cx, i)
      FracPart(i) ==
        IF i < cx.json_len /\ At(cx, i) = "."
          THEN IF i + 1 >= cx.json_len THEN Part(i + 1)
               ELSE IF ~jstok_is_digit(At(cx, i + 1)) THEN Inval(i + 1)
               ELSE ExpPart(SkipDigits(cx, i + 1))
          ELSE ExpPart(i)
      IntPart(i) ==
        IF At(cx, i) = "0"
          THEN IF i + 1 < cx.json_len /\ jstok_is_digit(At(cx, i + 1)) /\ cx.strict
                 THEN Inval(i + 1)
                 ELSE FracPart(i + 1)
        ELSE IF Ord[At(cx, i)] >= Ord["1"] /\ Ord[At(cx, i)] <= Ord["9"]
          THEN FracPart(SkipDigits(cx, i + 1))
        ELSE Inval(i)
  IN IF m.p.pos >= cx.json_len THEN Part(m.p.pos)
     ELSE IF At(cx, m.p.pos) = "-"
       THEN IF m.p.pos + 1 >= cx.json_len THEN Part(m.p.pos + 1) ELSE IntPart(m.p.pos + 1)
     ELSE IntPart(m.p.pos)

\* jstok_parse_primitive_token once the recognizer has yielded sp: the error,
\* or the token [p->pos, end) with p->pos moved to end
PrimitiveFrom(m, cx, isLit, sp) ==
  IF sp.r < 0 THEN [m |-> jstok_set_error(m, sp.r, sp.at), r |-> sp.r]
  ELSE IF isLit
    THEN jstok_new_token([m EXCEPT !.p.pos = @ + sp.r], cx, JSTOK_PRIMITIVE,
                         m.p.pos, m.p.pos + sp.r)
    ELSE jstok_new_token([m EXCEPT !.p.pos = sp.at], cx, JSTOK_PRIMITIVE, m.p.pos, sp.at)

jstok_parse_primitive_token(m, cx) ==
  IF m.p.pos >= cx.json_len
    THEN [m |-> jstok_set_error(m, JSTOK_ERROR_PART, m.p.pos), r |-> JSTOK_ERROR_PART]
  ELSE LET c == At(cx, m.p.pos) IN
    IF c = "t" THEN PrimitiveFrom(m, cx, TRUE, jstok_parse_literal(m, cx, LitTrue))
    ELSE IF c = "f" THEN PrimitiveFrom(m, cx, TRUE, jstok_parse_literal(m, cx, LitFalse))
    ELSE IF c = "n" THEN PrimitiveFrom(m, cx, TRUE, jstok_parse_literal(m, cx, LitNull))
    ELSE PrimitiveFrom(m, cx, FALSE, jstok_parse_number_span(m, cx))

-----------------------------------------------------------------------------
(* Containers *)

\* jstok_start_container after jstok_push: consume the opening bracket
StartContainerPushed(pushed, tok_idx) ==
  IF pushed.r < 0 THEN pushed
  ELSE [m |-> [pushed.m EXCEPT !.p.pos = @ + 1], r |-> tok_idx]

\* A container start that records the token index in the frame in count-only
\* mode too
StartContainerToken_KeepsTok(cx, type, nt) ==
  IF nt.r < 0 THEN nt
  ELSE StartContainerPushed(
         jstok_push(nt.m, cx, type,
                    IF type = JSTOK_OBJECT THEN JSTOK_ST_OBJ_KEY_OR_END
                                           ELSE JSTOK_ST_ARR_VALUE_OR_END,
                    nt.r),
         nt.r)

\* jstok_start_container after jstok_new_token: push the frame
StartContainerToken(cx, type, nt) ==
  IF nt.r < 0 THEN nt
  ELSE StartContainerPushed(
         jstok_push(nt.m, cx, type,
                    IF type = JSTOK_OBJECT THEN JSTOK_ST_OBJ_KEY_OR_END
                                           ELSE JSTOK_ST_ARR_VALUE_OR_END,
                    IF cx.tokens_null THEN -1 ELSE nt.r),
         nt.r)

\* A container start that leaves root_done unset while the root container is
\* open
StartContainerAccepted_RootOpen(cx, type, av) ==
  IF av.r < 0 THEN av
  ELSE StartContainerToken(cx, type,
         jstok_new_token([av.m EXCEPT !.p.root_done = IF av.m.p.depth = 0 THEN FALSE ELSE @],
                         cx, type, av.m.p.pos, -1))

\* jstok_start_container after jstok_accept_value: emit the container token
StartContainerAccepted(cx, type, av) ==
  IF av.r < 0 THEN av
  ELSE StartContainerToken(cx, type, jstok_new_token(av.m, cx, type, av.m.p.pos, -1))

jstok_start_container(m, cx, type) ==
  StartContainerAccepted(cx, type, jstok_accept_value(m, cx))

\* A closing-state check that lets a container close after a comma
CloseAllowed_AfterComma(type, st) ==
  IF type = JSTOK_OBJECT
    THEN st \in {JSTOK_ST_OBJ_KEY_OR_END, JSTOK_ST_OBJ_COMMA_OR_END, JSTOK_ST_OBJ_KEY}
    ELSE st \in {JSTOK_ST_ARR_VALUE_OR_END, JSTOK_ST_ARR_COMMA_OR_END, JSTOK_ST_ARR_VALUE}

\* "Enforce valid closing state": the sub-states in which a frame of the
\* given type may be closed
CloseAllowed(type, st) ==
  IF type = JSTOK_OBJECT
    THEN /\ st # JSTOK_ST_OBJ_KEY
         /\ ~(st = JSTOK_ST_OBJ_COLON \/ st = JSTOK_ST_OBJ_VALUE)
         /\ (st = JSTOK_ST_OBJ_KEY_OR_END \/ st = JSTOK_ST_OBJ_COMMA_OR_END)
    ELSE /\ st # JSTOK_ST_ARR_VALUE
         /\ (st = JSTOK_ST_ARR_VALUE_OR_END \/ st = JSTOK_ST_ARR_COMMA_OR_END)

\* jstok_end_container that closes a frame of either kind
jstok_end_container_AnyKind(m, cx, type) ==
  LET Inval == [m |-> jstok_set_error(m, JSTOK_ERROR_INVAL, m.p.pos), r |-> JSTOK_ERROR_INVAL] IN
  IF ~HasTop(m) THEN Inval
  ELSE IF ~CloseAllowed(Top(m).type, Top(m).st) THEN Inval
  ELSE [m |-> [jstok_pop(m) EXCEPT !.p.pos = @ + 1], r |-> 0]

\* jstok_end_container that pops the frame and leaves the closer unconsumed
jstok_end_container_NoConsume(m, cx, type) ==
  LET Inval == [m |-> jstok_set_error(m, JSTOK_ERROR_INVAL, m.p.pos), r |-> JSTOK_ERROR_INVAL] IN
  IF ~HasTop(m) \/ Top(m).type # type THEN Inval
  ELSE IF ~CloseAllowed(type, Top(m).st) THEN Inval
  ELSE [m |-> jstok_pop(m), r |-> 0]

\* jstok_end_container that pops the frame without writing the token's end
jstok_end_container_NoEnd(m, cx, type) ==
  LET Inval == [m |-> jstok_set_error(m, JSTOK_ERROR_INVAL, m.p.pos), r |-> JSTOK_ERROR_INVAL] IN
  IF ~HasTop(m) \/ Top(m).type # type THEN Inval
  ELSE IF ~CloseAllowed(type, Top(m).st) THEN Inval
  ELSE [m |-> [jstok_pop(m) EXCEPT !.p.pos = @ + 1], r |-> 0]

jstok_end_container(m, cx, type) ==
  LET Inval == [m |-> jstok_set_error(m, JSTOK_ERROR_INVAL, m.p.pos), r |-> JSTOK_ERROR_INVAL] IN
  IF ~HasTop(m) \/ Top(m).type # type THEN Inval
  ELSE IF ~CloseAllowed(type, Top(m).st) THEN Inval
  ELSE LET tok_idx == Top(m).tok
           closed ==
             IF ~cx.tokens_null /\ tok_idx >= 0
               THEN [m EXCEPT !.toks[tok_idx + 1] =
                       [@ EXCEPT !.end = m.p.pos + 1,
                                 !.start = IF @ < 0 THEN m.p.pos ELSE @,
                                 !.type = type]]
               ELSE m
       IN [m |-> [jstok_pop(closed) EXCEPT !.p.pos = @ + 1], r |-> 0]

-----------------------------------------------------------------------------
(* The driver *)

\* A rollback that also takes back the token emitted last
Rollback_DropsToken(m, cx, before) ==
  LET dropped == IF m.p.toknext > 0 /\ Len(m.toks) > 0
                   THEN [m EXCEPT !.p.toknext = @ - 1,
                                  !.toks = SubSeq(@, 1, Len(@) - 1)]
                   ELSE m
  IN IF HasTop(before)
       THEN SetTopSt(dropped, Top(before).st)
       ELSE [dropped EXCEPT !.p.root_done = before.p.root_done]

\* A rollback that takes the size increment back but leaves the sub-state and
\* root_done as jstok_accept_value set them
Rollback_KeepsState(m, cx, before) ==
  IF HasTop(before) /\ ~cx.tokens_null /\ Top(before).tok >= 0
    THEN [m EXCEPT !.toks[Top(before).tok + 1].size = @ - 1]
    ELSE m

\* A rollback that restores the frame's sub-state but leaves the container's
\* size incremented
Rollback_KeepsSize(m, cx, before) ==
  IF HasTop(before)
    THEN SetTopSt(m, Top(before).st)
    ELSE [m EXCEPT !.p.root_done = before.p.root_done]

\* The rollback of jstok_accept_value's side effects after JSTOK_ERROR_PART:
\* before is the machine when fr, saved_st and saved_root_done were taken
Rollback(m, cx, before) ==
  IF HasTop(before)
    THEN LET restored == SetTopSt(m, Top(before).st) IN
         IF ~cx.tokens_null /\ Top(before).tok >= 0
           THEN [restored EXCEPT !.toks[Top(before).tok + 1].size = @ - 1]
           ELSE restored
    ELSE [m EXCEPT !.p.root_done = before.p.root_done]

\* A recognizer's JSTOK_ERROR_PART returned without undoing accept_value
ValueRecognized_NoRollback(before, cx, tk) == tk

\* The value paths after the recognizer returned tk: roll back on
\* JSTOK_ERROR_PART; before is the machine at the start of the iteration
ValueRecognized(before, cx, tk) ==
  IF tk.r = JSTOK_ERROR_PART THEN [m |-> Rollback(tk.m, cx, before), r |-> tk.r]
  ELSE tk

\* The value paths after jstok_accept_value returned av: run the recognizer
ValueAccepted(before, cx, isString, av) ==
  IF av.r < 0 THEN av
  ELSE IF isString THEN ValueRecognized(before, cx, jstok_parse_string_token(av.m, cx))
  ELSE ValueRecognized(before, cx, jstok_parse_primitive_token(av.m, cx))

\* A value (string or primitive): accept_value, the recognizer, the rollback
ValueStep(m, cx, isString) ==
  ValueAccepted(m, cx, isString, jstok_accept_value(m, cx))

\* The key path after jstok_parse_string_token returned tk: restore the
\* sub-state on JSTOK_ERROR_PART, accept the key on success
KeyRecognized(before, tk) ==
  IF tk.r < 0
    THEN IF tk.r = JSTOK_ERROR_PART
           THEN [m |-> SetTopSt(tk.m, Top(before).st), r |-> tk.r]
           ELSE tk
    ELSE jstok_accept_key(tk.m)

\* A string where the object expects a key
KeyStep(m, cx) == KeyRecognized(m, jstok_parse_string_token(m, cx))

\* One iteration of while (p->pos < json_len) on a byte that is not
\* whitespace: r < 0 returns from jstok_parse, r >= 0 continues the loop
DriverStep(m, cx) ==
  LET c == At(cx, m.p.pos)
      Inval == [m |-> jstok_set_error(m, JSTOK_ERROR_INVAL, m.p.pos), r |-> JSTOK_ERROR_INVAL]
  IN
  IF c = "{" THEN jstok_start_container(m, cx, JSTOK_OBJECT)
  ELSE IF c = "[" THEN jstok_start_container(m, cx, JSTOK_ARRAY)
  ELSE IF c = "}" THEN jstok_end_container(m, cx, JSTOK_OBJECT)
  ELSE IF c = "]" THEN jstok_end_container(m, cx, JSTOK_ARRAY)
  ELSE IF c = ":" THEN
    IF ~HasTop(m) \/ Top(m).type # JSTOK_OBJECT \/ Top(m).st # JSTOK_ST_OBJ_COLON
      THEN Inval
      ELSE [m |-> [SetTopSt(m, JSTOK_ST_OBJ_VALUE) EXCEPT !.p.pos = @ + 1], r |-> 0]
  ELSE IF c = "," THEN
    IF ~HasTop(m) THEN Inval
    ELSE IF Top(m).type = JSTOK_OBJECT
      THEN IF Top(m).st # JSTOK_ST_OBJ_COMMA_OR_END THEN Inval
           ELSE [m |-> [SetTopSt(m, JSTOK_ST_OBJ_KEY) EXCEPT !.p.pos = @ + 1], r |-> 0]
      ELSE IF Top(m).st # JSTOK_ST_ARR_COMMA_OR_END THEN Inval
           ELSE [m |-> [SetTopSt(m, JSTOK_ST_ARR_VALUE) EXCEPT !.p.pos = @ + 1], r |-> 0]
  ELSE IF c = "\"" THEN
    IF HasTop(m) /\ Top(m).type = JSTOK_OBJECT
       /\ (Top(m).st = JSTOK_ST_OBJ_KEY_OR_END \/ Top(m).st = JSTOK_ST_OBJ_KEY)
      THEN KeyStep(m, cx)
      ELSE ValueStep(m, cx, TRUE)
  ELSE ValueStep(m, cx, FALSE)

\* The code after the loop: the end-of-buffer decision
EndOfBuffer(m, cx) ==
  IF cx.strict /\ m.p.depth = 0 /\ ~m.p.root_done
    THEN [m |-> jstok_set_error(m, JSTOK_ERROR_PART, m.p.pos), r |-> JSTOK_ERROR_PART]
  ELSE IF m.p.depth # 0
    THEN [m |-> jstok_set_error(m, JSTOK_ERROR_PART, m.p.pos), r |-> JSTOK_ERROR_PART]
  ELSE [m |-> m, r |-> m.p.toknext]

\* while (p->pos < json_len): skip whitespace, dispatch on the byte, return
\* on an error (DriverReturn takes the outcome st of one iteration)
RECURSIVE DriverLoop(_, _), DriverReturn(_, _)
DriverLoop(m, cx) ==
  IF m.p.pos < cx.json_len
    THEN IF jstok_is_space(At(cx, m.p.pos))
           THEN DriverLoop([m EXCEPT !.p.pos = @ + 1], cx)
           ELSE DriverReturn(DriverStep(m, cx), cx)
    ELSE EndOfBuffer(m, cx)

DriverReturn(st, cx) == IF st.r < 0 THEN st ELSE DriverLoop(st.m, cx)

\* jstok_parse that keeps the error fields of the call before
jstok_parse_NoReset(m, cx) ==
  DriverLoop(m, cx)

jstok_parse(m, cx) ==
  DriverLoop([m EXCEPT !.p.error_pos = -1, !.p.error_code = 0], cx)

\* The call context of a jstok_parse call
Cx(j, n, s, tn, mt, md) ==
  [json |-> j, json_len |-> n, strict |-> s, tokens_null |-> tn,
   max_tokens |-> mt, max_depth |-> md]

\* jstok_init followed by one jstok_parse of the first n bytes of j
ParseFresh(j, n, s, tn, mt, md) ==
  jstok_parse([p |-> jstok_init_p, toks |-> <<>>], Cx(j, n, s, tn, mt, md))

-----------------------------------------------------------------------------
(* Reference grammar: RFC 8259 over byte strings.  Positions are 1-based     *)
(* indices into the sequence s; a recognizer yields the position after what  *)
(* it recognized, or 0 when there is no match.                               *)

RefWsBytes == {" ", "\t", "\n", "\r"}
RefDigitBytes == {"0", "1", "2", "9"}
RefHexBytes == RefDigitBytes \cup {"a", "b", "e", "f", "A", "E", "F"}

RECURSIVE RefWs(_, _)
RefWs(s, i) == IF i <= Len(s) /\ s[i] \in RefWsBytes THEN RefWs(s, i + 1) ELSE i

RECURSIVE RefDigits(_, _)
RefDigits(s, i) == IF i <= Len(s) /\ s[i] \in RefDigitBytes THEN RefDigits(s, i + 1) ELSE i

\* number = [ minus ] int [ frac ] [ exp ]
RefNumber(s, i) ==
  LET HasAt(k, set) == k <= Len(s) /\ s[k] \in set
      i1 == IF HasAt(i, {"-"}) THEN i + 1 ELSE i
      i2 == IF HasAt(i1, {"0"}) THEN i1 + 1
            ELSE IF HasAt(i1, RefDigitBytes) THEN RefDigits(s, i1)
            ELSE 0
      i3 == IF i2 = 0 THEN 0
            ELSE IF HasAt(i2, {"."})
              THEN IF HasAt(i2 + 1, RefDigitBytes) THEN RefDigits(s, i2 + 1) ELSE 0
            ELSE i2
      e1 == IF HasAt(i3 + 1, {"+", "-"}) THEN i3 + 2 ELSE i3 + 1
  IN IF i3 = 0 THEN 0
     ELSE IF HasAt(i3, {"e", "E"})
       THEN IF HasAt(e1, RefDigitBytes) THEN RefDigits(s, e1) ELSE 0
     ELSE i3

\* string = quotation-mark *char quotation-mark, from the byte after the
\* opening quotation mark
RECURSIVE RefChars(_, _)
RefChars(s, i) ==
  IF i > Len(s) THEN 0
  ELSE IF s[i] = "\"" THEN i + 1
  ELSE IF s[i] = "\\"
    THEN IF i + 1 > Len(s) THEN 0
         ELSE IF s[i + 1] \in {"\"", "\\", "/", "b", "f", "n", "r", "t"} THEN RefChars(s, i + 2)
         ELSE IF s[i + 1] = "u" /\ i + 5 <= Len(s)
                 /\ \A k \in 2..5 : s[i + k] \in RefHexBytes THEN RefChars(s, i + 6)
         ELSE 0
  ELSE IF Ord[s[i]] < 32 THEN 0
  ELSE RefChars(s, i + 1)

RefLiteral(s, i, lit) ==
  IF i + Len(lit) - 1 <= Len(s) /\ SubSeq(s, i, i + Len(lit) - 1) = lit
    THEN i + Len(lit) ELSE 0

RECURSIVE RefValue(_, _), RefElements(_, _), RefMembers(_, _)
\* value = false / null / true / object / array / number / string
RefValue(s, i) ==
  IF i > Len(s) THEN 0
  ELSE IF s[i] = "[" THEN
    LET j == RefWs(s, i + 1) IN
    IF j <= Len(s) /\ s[j] = "]" THEN j + 1 ELSE RefElements(s, j)
  ELSE IF s[i] = "{" THEN
    LET j == RefWs(s, i + 1) IN
    IF j <= Len(s) /\ s[j] = "}" THEN j + 1 ELSE RefMembers(s, j)
  ELSE IF s[i] = "\"" THEN RefChars(s, i + 1)
  ELSE IF s[i] = "t" THEN RefLiteral(s, i, <<"t", "r", "u", "e">>)
  ELSE IF s[i] = "f" THEN RefLiteral(s, i, <<"f", "a", "l", "s", "e">>)
  ELSE IF s[i] = "n" THEN RefLiteral(s, i, <<"n", "u", "l", "l">>)
  ELSE RefNumber(s, i)

\* value *( value-separator value ) end-array, from the first value
RefElements(s, i) ==
  LET v == RefValue(s, i)
      j == RefWs(s, v)
  IN IF v = 0 \/ j > Len(s) THEN 0
     ELSE IF s[j] = "]" THEN j + 1
     ELSE IF s[j] = "," THEN RefElements(s, RefWs(s, j + 1))
     ELSE 0

\* member *( value-separator member ) end-object, from the first member
RefMembers(s, i) ==
  LET k == IF i <= Len(s) /\ s[i] = "\"" THEN RefChars(s, i + 1) ELSE 0
      c == RefWs(s, k)
      v == IF k # 0 /\ c <= Len(s) /\ s[c] = ":" THEN RefValue(s, RefWs(s, c + 1)) ELSE 0
      j == RefWs(s, v)
  IN IF v = 0 \/ j > Len(s) THEN 0
     ELSE IF s[j] = "}" THEN j + 1
     ELSE IF s[j] = "," THEN RefMembers(s, RefWs(s, j + 1))
     ELSE 0

\* JSON-text = ws value ws
IsJSONText(s) ==
  LET v == RefValue(s, RefWs(s, 1)) IN v # 0 /\ RefWs(s, v) = Len(s) + 1

-----------------------------------------------------------------------------
(* jstok_skip: the index after the subtree of token i.  toks is the token    *)
(* array, tn is toks == NULL, md the build's JSTOK_MAX_DEPTH.                *)

IsLeaf(t) == t.type = JSTOK_STRING \/ t.type = JSTOK_PRIMITIVE

\* while (sp > 0): rem is rem[0 .. sp), idx the next token
RECURSIVE SkipLoop(_, _, _, _, _)

\* The loop body after rem[sp - 1]-- on a token idx < count
SkipToken(toks, count, idx, rem, md) ==
  IF IsLeaf(toks[idx + 1]) THEN SkipLoop(toks, count, idx + 1, rem, md)
  ELSE IF Len(rem) >= md THEN count
  ELSE IF toks[idx + 1].type = JSTOK_ARRAY
    THEN SkipLoop(toks, count, idx + 1, Append(rem, toks[idx + 1].size), md)
  ELSE IF toks[idx + 1].type = JSTOK_OBJECT
    THEN SkipLoop(toks, count, idx + 1, Append(rem, toks[idx + 1].size * 2), md)
  ELSE SkipLoop(toks, count, idx + 1, rem, md)

SkipLoop(toks, count, idx, rem, md) ==
  IF Len(rem) = 0 THEN idx
  ELSE IF rem[Len(rem)] = 0 THEN SkipLoop(toks, count, idx, SubSeq(rem, 1, Len(rem) - 1), md)
  ELSE IF idx >= count THEN count
  ELSE SkipToken(toks, count, idx, [rem EXCEPT ![Len(rem)] = @ - 1], md)

\* A jstok_skip that takes an object's size for its number of child tokens
jstok_skip_PairsAsTokens(tn, toks, count, i, md) ==
  IF tn \/ i < 0 \/ i >= count THEN count
  ELSE IF IsLeaf(toks[i + 1]) THEN i + 1
  ELSE SkipLoop(toks, count, i + 1, <<toks[i + 1].size>>, md)

jstok_skip(tn, toks, count, i, md) ==
  IF tn \/ i < 0 \/ i >= count THEN count
  ELSE IF IsLeaf(toks[i + 1]) THEN i + 1
  ELSE IF toks[i + 1].type = JSTOK_ARRAY
    THEN SkipLoop(toks, count, i + 1, <<toks[i + 1].size>>, md)
  ELSE IF toks[i + 1].type = JSTOK_OBJECT
    THEN SkipLoop(toks, count, i + 1, <<toks[i + 1].size * 2>>, md)
  ELSE i + 1

-----------------------------------------------------------------------------
(* Server-sent events: jstok_sse_next.  A span is [p |-> offset of its first *)
(* byte in buf, n |-> its length]; buf[i] of the C code is b[i + 1].         *)

DataPrefix == <<"d", "a", "t", "a", ":">>

\* jstok_str_prefix(buf + start, length, prefix): the prefix's length when the
\* bytes begin with it, 0 otherwise
jstok_str_prefix(b, start, length, prefix) ==
  IF \A i \in 0..(Len(prefix) - 1) : i < length /\ b[start + i + 1] = prefix[i + 1]
    THEN Len(prefix)
    ELSE 0

\* while (i < len && buf[i] != '\n') i++;
RECURSIVE ScanNewline(_, _, _)
ScanNewline(b, l, i) ==
  IF i < l /\ b[i + 1] # "\n" THEN ScanNewline(b, l, i + 1) ELSE i

\* A line length that keeps the '\r' before the '\n'
LineLen_KeepsCR(b, start, i) ==
  i - start

\* line_len = i - start, less a '\r' before the '\n'
LineLen(b, start, i) ==
  IF i - start > 0 /\ b[i] = "\r" THEN i - start - 1 ELSE i - start

\* A payload that skips one byte after the prefix even when there is none
Payload_AlwaysSkipsOne(b, start, line_len, prefix_len) ==
  [p |-> start + prefix_len + 1, n |-> line_len - prefix_len - 1]

\* The payload of a data line: one leading space after the prefix skipped
Payload(b, start, line_len, prefix_len) ==
  IF line_len - prefix_len > 0 /\ b[start + prefix_len + 1] = " "
    THEN [p |-> start + prefix_len + 1, n |-> line_len - prefix_len - 1]
    ELSE [p |-> start + prefix_len, n |-> line_len - prefix_len]

RECURSIVE jstok_sse_next(_, _, _, _)

\* A scanner that gives up at a line that is not a data line
SseLine_StopsAtOther(b, l, start, o, i, line_len, prefix_len) ==
  IF prefix_len > 0
    THEN [r |-> 1, pos |-> i + 1, out |-> Payload(b, start, line_len, prefix_len)]
    ELSE [r |-> 0, pos |-> i + 1, out |-> o]

\* jstok_sse_next once the line [start, i) is known to be complete and not
\* empty: a data line yields its payload, any other line is skipped
SseLine(b, l, start, o, i, line_len, prefix_len) ==
  IF prefix_len > 0
    THEN [r |-> 1, pos |-> i + 1, out |-> Payload(b, start, line_len, prefix_len)]
    ELSE jstok_sse_next(b, l, i + 1, o)

\* A scanner that leaves the cursor where the scan ran out of bytes
SseScanned_PosAtEnd(b, l, start, o, i) ==
  IF i >= l THEN [r |-> 0, pos |-> i, out |-> o]
  ELSE IF LineLen(b, start, i) = 0 THEN jstok_sse_next(b, l, i + 1, o)
  ELSE SseLine(b, l, start, o, i, LineLen(b, start, i),
               jstok_str_prefix(b, start, LineLen(b, start, i), DataPrefix))

\* A scanner that puts the cursor back to the start of the buffer when a line
\* is incomplete
SseScanned_Rewinds(b, l, start, o, i) ==
  IF i >= l THEN [r |-> 0, pos |-> 0, out |-> o]
  ELSE IF LineLen(b, start, i) = 0 THEN jstok_sse_next(b, l, i + 1, o)
  ELSE SseLine(b, l, start, o, i, LineLen(b, start, i),
               jstok_str_prefix(b, start, LineLen(b, start, i), DataPrefix))

\* jstok_sse_next once the scan from start has stopped at i
SseScanned(b, l, start, o, i) ==
  IF i >= l THEN [r |-> 0, pos |-> start, out |-> o]
  ELSE IF LineLen(b, start, i) = 0 THEN jstok_sse_next(b, l, i + 1, o)
  ELSE SseLine(b, l, start, o, i, LineLen(b, start, i),
               jstok_str_prefix(b, start, LineLen(b, start, i), DataPrefix))

\* jstok_sse_next(buf, len, &pos, &out) entered with *pos = start and *out = o:
\* yields [r, pos, out], the return value and what it leaves in *pos and *out
jstok_sse_next(b, l, start, o) ==
  SseScanned(b, l, start, o, ScanNewline(b, l, start))

-----------------------------------------------------------------------------
(* Inputs *)

\* All byte strings over alphabet A of length at most n
Strs(A, n) == UNION {[1..k -> A] : k \in 0..n}

\* Alphabets for the exhaustive part: structure, numbers, strings, literals
AlphaStruct == {"[", "]", "{", "}", ",", ":", "\"", "1"}
AlphaNum == {"-", "0", "1", ".", "e", " ", "["}
AlphaStr == {"\"", "\\", "u", "n", "A", "\n", " "}
AlphaLit == {"t", "r", "u", "e", "n", "l", " "}

\* Documents longer than the exhaustive part reaches
Corpus ==
  { <<"{", "\"", "a", "\"", ":", "[", "1", ",", "{", "}", "]", "}">>,
    <<"{", "\"", "\"", ":", "1", ",", "\"", "b", "\"", ":", "[", "]", "}">>,
    <<" ", "[", "1", ",", " ", "2", ",", "[", "1", "]", "]", "\n">>,
    <<"[", "t", "r", "u", "e", ",", "f", "a", "l", "s", "e", "]">>,
    <<"[", "n", "u", "l", "l", " ", "]">>,
    <<"[", "0", ".", "1", ",", "-", "2", "e", "+", "1", "0", "]">>,
    <<"{", "\"", "\\", "u", "0", "0", "F", "b", "\"", ":", "\"", "\"", "}">>,
    <<"[", "1", " ", ",", "\"", "\\", "\\", "\\", "n", "\"", "]", "\r">>,
    <<"{", "\"", "a", "\"", ":", "{", "\"", "b", "\"", ":", "2", "}", "}">>,
    <<"\t", "\"", "a", "\\", "\\", "\"", "\r", "\n">>,
    <<"-", "1", "2", "E", "2", " ">>,
    <<"{", "}", " ", "[", "]">> }

\* The bytes a corpus document is mutated with
AlphaMut == {"[", "}", ",", ":", "\"", "\\", "0", " "}

\* A document with one byte replaced
Mutations(d) == {[d EXCEPT ![i] = c] : i \in 1..Len(d), c \in AlphaMut}

Inputs ==
  Strs(AlphaStruct, MaxLen) \cup Strs(AlphaNum, MaxLen) \cup Strs(AlphaStr, MaxLen)
    \cup Strs(AlphaLit, MaxLen) \cup Corpus \cup UNION {Mutations(d) : d \in Corpus}

-----------------------------------------------------------------------------
(* The caller *)

\* A caller that does not use jstok_sse_next
SseIdle ==
  /\ buf = <<>>
  /\ len = 0
  /\ sse_pos = 0
  /\ pos_in = 0
  /\ out = [p |-> 0, n |-> 0]
  /\ sse_ret = 0
  /\ sse_call = "none"
  /\ spans = <<>>

\* A caller that has not called jstok_skip
SkipIdle ==
  /\ skip_toks = <<>>
  /\ skip_count = 0
  /\ skip_i = 0
  /\ skip_ret = 0
  /\ skip_call = "none"

\* A jstok_parse or jstok_init call ends the walk over the tokens of the call
\* before
SkipReset ==
  /\ skip_toks' = <<>>
  /\ skip_count' = 0
  /\ skip_i' = 0
  /\ skip_ret' = 0
  /\ skip_call' = "none"

Init ==
  /\ json \in Inputs
  /\ strict \in BOOLEAN
  /\ tokens_null = FALSE
  /\ max_tokens = Len(json) + 1
  /\ max_depth = JSTOK_MAX_DEPTH
  /\ json_len = 0
  /\ p = jstok_init_p
  /\ tokens = <<>>
  /\ ret = 0
  /\ call = "none"
  /\ SseIdle
  /\ SkipIdle

\* jstok_init(&p): the caller starts a new parse session on the same buffer
Reinit ==
  /\ call # "none"
  /\ p' = jstok_init_p
  /\ tokens' = <<>>
  /\ json_len' = 0
  /\ ret' = 0
  /\ call' = "none"
  /\ UNCHANGED <<json, strict, tokens_null, max_tokens, max_depth>>
  /\ UNCHANGED sse_vars
  /\ SkipReset

\* r = jstok_parse(&p, json, n, tokens, max_tokens): the first call of a
\* session, or a resume after JSTOK_ERROR_PART with a non-decreasing length
Parse(n) ==
  /\ call = "none" \/ ret = JSTOK_ERROR_PART
  /\ n >= json_len
  /\ \E res \in {jstok_parse([p |-> p, toks |-> tokens],
                               Cx(json, n, strict, tokens_null, max_tokens, max_depth))} :
       /\ p' = res.m.p
       /\ tokens' = res.m.toks
       /\ ret' = res.r
  /\ json_len' = n
  /\ call' = IF call = "none" THEN "first" ELSE IF n = json_len THEN "repeated" ELSE "resumed"
  /\ UNCHANGED <<json, strict, tokens_null, max_tokens, max_depth>>
  /\ UNCHANGED sse_vars
  /\ SkipReset

Next ==
  \/ \E n \in 0..Len(json) : Parse(n)
  \/ Reinit

Spec == Init /\ [][Next]_vars

\* Nested containers: k arrays, and k objects around an empty array
RECURSIVE ArrNest(_)
ArrNest(k) == IF k = 0 THEN <<>> ELSE <<"[">> \o ArrNest(k - 1) \o <<"]">>

RECURSIVE ObjNest(_)
ObjNest(k) ==
  IF k = 0 THEN <<"[", "]">>
  ELSE <<"{", "\"", "\"", ":">> \o ObjNest(k - 1) \o <<"}">>

AlphaNest == {"[", "]", "{", "}", ",", "1"}

\* Inputs for the nesting limit: brackets exhaustively, and documents nested
\* up to one level beyond the deepest limit
NestInputs ==
  Strs(AlphaNest, MaxLen) \cup {ArrNest(k) : k \in 1..(MaxNest + 1)}
    \cup {ObjNest(k) : k \in 1..(MaxNest + 1)}

\* A session of a build compiled with -DJSTOK_MAX_DEPTH=1 .. MaxNest
InitDepth ==
  /\ json \in NestInputs
  /\ strict \in BOOLEAN
  /\ tokens_null = FALSE
  /\ max_tokens = Len(json) + 1
  /\ max_depth \in 1..MaxNest
  /\ json_len = 0
  /\ p = jstok_init_p
  /\ tokens = <<>>
  /\ ret = 0
  /\ call = "none"
  /\ SseIdle
  /\ SkipIdle

SpecDepth == InitDepth /\ [][Next]_vars

AlphaCap == {"[", "]", ",", "1"}

\* Inputs for the limits: arrays of numbers exhaustively, nested documents,
\* and the corpus
LimitInputs ==
  Strs(AlphaCap, MaxLen) \cup {ArrNest(k) : k \in 1..(MaxNest + 1)}
    \cup {ObjNest(k) : k \in 1..(MaxNest + 1)} \cup Corpus

\* A session whose caller passes a token array of any capacity up to one more
\* than the input has bytes, on the default build or a build compiled with
\* -DJSTOK_MAX_DEPTH=1 .. MaxNest
InitLimits ==
  /\ json \in LimitInputs
  /\ strict \in BOOLEAN
  /\ tokens_null = FALSE
  /\ max_tokens \in 0..(Len(json) + 1)
  /\ max_depth \in (1..MaxNest) \cup {JSTOK_MAX_DEPTH}
  /\ json_len = 0
  /\ p = jstok_init_p
  /\ tokens = <<>>
  /\ ret = 0
  /\ call = "none"
  /\ SseIdle
  /\ SkipIdle

SpecLimits == InitLimits /\ [][Next]_vars

\* The lines of a stream, without their '\n': data lines with and without
\* the optional space, with two spaces, with an empty payload, with a '\r'
\* before the '\n'; an empty line and a lone '\r'; a comment, another field, a
\* line with a leading space, a line that stops inside the prefix
SseLines ==
  { <<"d", "a", "t", "a", ":", "x">>,
    <<"d", "a", "t", "a", ":", " ", "x">>,
    <<"d", "a", "t", "a", ":", " ", " ", "x">>,
    <<"d", "a", "t", "a", ":">>,
    <<"d", "a", "t", "a", ":", " ">>,
    <<"d", "a", "t", "a", ":", " ", "x", "\r">>,
    <<"d", "a", "t", "a", ":", "\r">>,
    <<>>,
    <<"\r">>,
    <<":", "c">>,
    <<"i", "d", ":", "1">>,
    <<" ", "d", "a", "t", "a", ":", "n">>,
    <<"d", "a", "t">> }

\* Stream buffers of at most k complete lines
RECURSIVE Streams(_)
Streams(k) ==
  IF k = 0 THEN {<<>>}
  ELSE Streams(k - 1) \cup {s \o l \o <<"\n">> : s \in Streams(k - 1), l \in SseLines}

\* A caller that does not use jstok_parse
ParserIdle ==
  /\ json = <<>>
  /\ strict = FALSE
  /\ tokens_null = FALSE
  /\ max_tokens = 0
  /\ max_depth = JSTOK_MAX_DEPTH
  /\ json_len = 0
  /\ p = jstok_init_p
  /\ tokens = <<>>
  /\ ret = 0
  /\ call = "none"

\* A caller of jstok_sse_next with a stream buffer and a cursor that starts
\* anywhere, beyond the end of the buffer included
InitSSE ==
  /\ buf \in Streams(MaxLines)
  /\ pos_in \in 0..(Len(buf) + 1)
  /\ sse_pos = pos_in
  /\ len = 0
  /\ out = [p |-> 0, n |-> 0]
  /\ sse_ret = 0
  /\ sse_call = "none"
  /\ spans = <<>>
  /\ ParserIdle
  /\ SkipIdle

\* r = jstok_sse_next(buf, l, &pos, &out) with the same cursor as the call
\* before and a length that does not shrink; the caller keeps the span of a
\* call that returned 1
SseNext(l) ==
  /\ l >= len
  /\ \E res \in {jstok_sse_next(buf, l, sse_pos, out)} :
       /\ sse_ret' = res.r
       /\ sse_pos' = res.pos
       /\ out' = res.out
       /\ spans' = IF res.r = 1 THEN Append(spans, res.out) ELSE spans
  /\ len' = l
  /\ sse_call' = "called"
  /\ UNCHANGED <<buf, pos_in>>
  /\ UNCHANGED <<json, json_len, p, tokens, ret, call, strict, tokens_null, max_tokens,
                 max_depth>>
  /\ UNCHANGED skip_vars

NextSSE == \E l \in 0..Len(buf) : SseNext(l)

SpecSSE == InitSSE /\ [][NextSSE]_vars

\* Documents whose tokens a caller walks with jstok_skip: arrays of numbers
\* exhaustively, the corpus, and two documents shaped as those of the helper's test plan
SkipInputs ==
  Strs(AlphaCap, MaxLen) \cup Corpus \cup
    { <<"[", "1", ",", "[", "2", ",", "1", "]", ",", "0", "]">>,
      <<"{", "\"", "a", "\"", ":", "1", ",", "\"", "b", "\"", ":",
        "{", "\"", "e", "\"", ":", "2", "}", ",", "\"", "f", "\"", ":", "0", "}">> }

InitSkip ==
  /\ json \in SkipInputs
  /\ strict \in BOOLEAN
  /\ tokens_null = FALSE
  /\ max_tokens = Len(json) + 1
  /\ max_depth \in {MaxNest, JSTOK_MAX_DEPTH}
  /\ json_len = 0
  /\ p = jstok_init_p
  /\ tokens = <<>>
  /\ ret = 0
  /\ call = "none"
  /\ SseIdle
  /\ SkipIdle

\* What a caller may have done to the sizes of the tokens it passes: nothing,
\* or one added to each
SizeErrors == {0, 1}

\* The token array a with d added to every size
Oversized(a, d) == [k \in 1..Len(a) |-> [a[k] EXCEPT !.size = @ + d]]

\* next = jstok_skip(toks, count, i): the caller passes the tokens of the
\* latest jstok_parse call, whatever it returned, their sizes possibly wrong,
\* any count up to the tokens emitted and any index.  jstok_skip keeps no
\* state and the record holds its latest call only, so one call after each
\* jstok_parse call reaches every state that a longer walk reaches
Skip(count, i, d) ==
  /\ call # "none"
  /\ skip_call = "none"
  /\ count <= Len(tokens)
  /\ skip_toks' = Oversized(tokens, d)
  /\ skip_count' = count
  /\ skip_i' = i
  /\ skip_ret' = jstok_skip(tokens_null, Oversized(tokens, d), count, i, max_depth)
  /\ skip_call' = "called"
  /\ UNCHANGED <<json, json_len, p, tokens, ret, call, strict, tokens_null, max_tokens,
                 max_depth>>
  /\ UNCHANGED sse_vars

NextSkip ==
  \/ \E n \in 0..Len(json) : Parse(n)
  \/ \E count \in 0..Len(tokens), i \in -1..(Len(tokens) + 1), d \in SizeErrors :
       Skip(count, i, d)

SpecSkip == InitSkip /\ [][NextSkip]_vars

\* A program that has a document and calls the parser on it, or has a stream
\* buffer and calls the stream helper on it
NextBoth ==
  \/ buf = <<>> /\ Next
  \/ json = <<>> /\ NextSSE

SpecBoth == (Init \/ InitSSE) /\ [][NextBoth]_vars

-----------------------------------------------------------------------------
(* What the claims speak of *)

\* The bytes passed to the latest call
Passed == SubSeq(json, 1, json_len)

\* A one-shot jstok_parse of the whole buffer by a fresh parser, same build,
\* same token mode and capacity
OneShot == ParseFresh(json, Len(json), strict, tokens_null, max_tokens, max_depth)

Partial == call # "none" /\ ret = JSTOK_ERROR_PART
Success == call # "none" /\ ret >= 0

\* The latest call returned a count with the same tokens as the one-shot parse
SameAsOneShot == ret = OneShot.r /\ tokens = OneShot.m.toks

\* The bytes passed to the latest call are whitespace only (possibly none)
OnlyWhitespace == \A i \in 1..json_len : jstok_is_space(json[i])

\* Token t's first byte and the byte after its last (0-based offsets),
\* quotes of a string included
FirstByte(t) == IF t.type = JSTOK_STRING THEN t.start - 1 ELSE t.start
AfterByte(t) == IF t.type = JSTOK_STRING THEN t.end + 1 ELSE t.end

IsContainer(t) == t.type = JSTOK_OBJECT \/ t.type = JSTOK_ARRAY

\* Token j (1-based index) lies inside container token i
Inside(j, i) ==
  /\ IsContainer(tokens[i])
  /\ tokens[i].start < tokens[j].start
  /\ tokens[j].start < tokens[i].end

\* The direct children of container token i, in token order
DirectChildren(i) ==
  LET ch == {j \in 1..Len(tokens) :
               Inside(j, i) /\ ~\E k \in 1..Len(tokens) : Inside(k, i) /\ Inside(j, k)}
      RECURSIVE Sorted(_)
      Sorted(S) == IF S = {} THEN <<>>
                   ELSE LET lo == CHOOSE x \in S : \A y \in S : x <= y
                        IN <<lo>> \o Sorted(S \ {lo})
  IN Sorted(ch)

\* The number of elements (array) or members (object) the reference grammar
\* finds in the container whose first element or member starts at 1-based
\* position i of s, or is the closer
RECURSIVE RefCount(_, _, _)
RefCount(s, i, isObject) ==
  IF s[i] = "]" \/ s[i] = "}" THEN 0
  ELSE LET v == IF isObject
                  THEN RefValue(s, RefWs(s, RefWs(s, RefChars(s, i + 1)) + 1))
                  ELSE RefValue(s, i)
           j == RefWs(s, v)
       IN IF s[j] = "," THEN 1 + RefCount(s, RefWs(s, j + 1), isObject) ELSE 1

-----------------------------------------------------------------------------
(* Claims *)

\* C1: for every valid JSON text, on one parser fed non-decreasing lengths,
\* every call returns Partial or a count, and the first call that returns a
\* count has the token count and tokens of a one-shot parse of the whole text.
C1_ResumeEqualsOneShot ==
  (call # "none" /\ IsJSONText(json)) =>
    /\ ret = JSTOK_ERROR_PART \/ ret >= 0
    /\ ret >= 0 => SameAsOneShot

\* C1 outside the diverging case: the only calls that break C1 are those of a
\* build without JSTOK_STRICT that return 0 while the bytes passed so far are
\* whitespace only.
C1_ApartFromWhitespacePrefix ==
  (call # "none" /\ IsJSONText(json)) =>
    /\ ret = JSTOK_ERROR_PART \/ ret >= 0
    /\ ret >= 0 => \/ SameAsOneShot
                   \/ ~strict /\ ret = 0 /\ OnlyWhitespace

\* The resume protocol at work: a valid text completed by a resumed call,
\* after a Partial, with a nested container and the tokens of the one-shot
\* parse
C1_ResumedToCompletion ==
  /\ call = "resumed" /\ ret >= 4 /\ IsJSONText(json)
  /\ json_len = Len(json)
  /\ SameAsOneShot
  /\ \E i \in 2..Len(tokens) : IsContainer(tokens[i]) /\ tokens[i].size > 0

\* C2: whenever a call returns Partial leaving pos = s, the parser's pos,
\* toknext, depth, root_done, frames and tokens are those of a fresh parser
\* that parsed only the first s bytes of the buffer.
C2_FaithfulPrefixState ==
  Partial =>
    LET f == ParseFresh(json, p.pos, strict, tokens_null, max_tokens, max_depth) IN
    /\ p.pos = f.m.p.pos
    /\ p.toknext = f.m.p.toknext
    /\ p.depth = f.m.p.depth
    /\ p.root_done = f.m.p.root_done
    /\ p.stack = f.m.p.stack
    /\ tokens = f.m.toks

\* C2 witness: a resumed call returned Partial on an incomplete value inside a
\* container that already holds an element; the value's acceptance is undone
C2_Witness ==
  /\ Partial /\ call = "resumed"
  /\ p.pos < json_len
  /\ p.depth > 0
  /\ p.stack[p.depth].st \in {JSTOK_ST_ARR_VALUE, JSTOK_ST_OBJ_VALUE}
  /\ tokens[p.stack[p.depth].tok + 1].size = 1

\* C3: after a Partial, a call with the same buffer and the same length
\* returns Partial again with the same pos, depth, toknext, root_done and
\* error_pos.
C3_NoProgressIdempotent ==
  [][(Partial /\ call' = "repeated") =>
       /\ ret' = JSTOK_ERROR_PART
       /\ p'.pos = p.pos
       /\ p'.depth = p.depth
       /\ p'.toknext = p.toknext
       /\ p'.root_done = p.root_done
       /\ p'.error_pos = p.error_pos]_vars

\* C3 witness: a repeated call returned Partial on an incomplete value (pos
\* rewound to the value's start) inside a container
C3_Witness ==
  /\ call = "repeated" /\ ret = JSTOK_ERROR_PART
  /\ p.pos < json_len
  /\ p.depth > 0
  /\ p.toknext > 1

\* C4: for every valid JSON text J and 0 < k <= len(J), a fresh
\* parse of J[:k] returns Partial or a count, and a count comes with the
\* token count and tokens of a fresh parse of the whole of J.
C4_PrefixProperty ==
  (call = "first" /\ json_len > 0 /\ IsJSONText(json)) =>
    /\ ret = JSTOK_ERROR_PART \/ ret >= 0
    /\ ret >= 0 => SameAsOneShot

\* C4 outside the diverging case: the only prefixes that break C4 are the
\* whitespace-only ones, for which a build without JSTOK_STRICT returns 0.
C4_ApartFromWhitespacePrefix ==
  (call = "first" /\ json_len > 0 /\ IsJSONText(json)) =>
    /\ ret = JSTOK_ERROR_PART \/ ret >= 0
    /\ ret >= 0 => \/ SameAsOneShot
                   \/ ~strict /\ ret = 0 /\ OnlyWhitespace

\* The prefix property at work: a fresh parse of a proper prefix of a valid text returned a
\* count, the text continuing with whitespace after its root value
C4_PrefixCompletes ==
  /\ call = "first" /\ ret >= 2 /\ IsJSONText(json)
  /\ 0 < json_len /\ json_len < Len(json)
  /\ SameAsOneShot

\* C5: when a fresh token-mode parse with sufficient capacity returns a count
\* n, a fresh count-only parse (tokens == NULL) of the same input returns n.
C5_CountOnlyAgreement ==
  (call = "first" /\ ~tokens_null /\ ret >= 0) =>
    ParseFresh(json, json_len, strict, TRUE, max_tokens, max_depth).r = ret

\* C5 witness: a fresh token-mode parse returned at least three tokens, one a
\* non-empty container, and the count-only parse returns the same count
C5_Witness ==
  /\ call = "first" /\ ~tokens_null /\ ret >= 3
  /\ \E i \in 1..Len(tokens) : IsContainer(tokens[i]) /\ tokens[i].size > 0
  /\ ParseFresh(json, json_len, strict, TRUE, max_tokens, max_depth).r = ret

\* C6: in a JSTOK_STRICT build jstok_parse returns a count only if the bytes
\* [0, json_len) are one RFC 8259 value optionally surrounded by whitespace.
C6_StrictSoundness ==
  (strict /\ Success) => IsJSONText(Passed)

\* C6 witness: a strict parse returned a count on a text with a nested
\* container and whitespace around the root value
C6_Witness ==
  /\ strict /\ Success /\ ret >= 4
  /\ IsJSONText(Passed)
  /\ jstok_is_space(json[1]) /\ jstok_is_space(json[json_len])

\* C7: after a successful token-mode parse, one-shot or resumed, an Object
\* token's size is the number of its key/value pairs, an Array token's size
\* the number of its direct elements, a String or Primitive token's size 0.
C7_ContainerSize ==
  (Success /\ ~tokens_null) =>
    \A i \in 1..Len(tokens) :
      LET t == tokens[i] IN
      IF IsContainer(t)
        THEN /\ RefValue(json, t.start + 1) = t.end + 1
             /\ t.size = RefCount(json, RefWs(json, t.start + 2), t.type = JSTOK_OBJECT)
             /\ Len(DirectChildren(i)) = IF t.type = JSTOK_OBJECT THEN 2 * t.size ELSE t.size
        ELSE t.size = 0

\* C7 witness: a parse that returned Partial on an incomplete element, then
\* completed with an array of two elements inside an object of one pair
C7_Witness ==
  /\ Success /\ call = "resumed"
  /\ \E i, j \in 1..Len(tokens) :
       /\ tokens[i].type = JSTOK_OBJECT /\ tokens[i].size = 1
       /\ tokens[j].type = JSTOK_ARRAY /\ tokens[j].size = 2
       /\ Inside(j, i)

\* C8: every token of a successful parse of a buffer of length len has
\* 0 <= start <= end <= len.
C8_TokenRangeBounds ==
  (Success /\ ~tokens_null) =>
    \A i \in 1..Len(tokens) :
      /\ 0 <= tokens[i].start
      /\ tokens[i].start <= tokens[i].end
      /\ tokens[i].end <= json_len

\* C8 witness: a successful parse with an empty string (start = end) inside
\* a container that ends at the last byte passed (end = len)
C8_Witness ==
  /\ Success /\ ~tokens_null
  /\ \E i, j \in 1..Len(tokens) :
       /\ tokens[i].type = JSTOK_STRING /\ tokens[i].start = tokens[i].end
       /\ IsContainer(tokens[j]) /\ tokens[j].end = json_len /\ tokens[j].start = 0

\* C9: on success a String token spans the bytes between its quotes (start
\* after the opening quote, end at the closing quote), a container token spans
\* its opener to one past its matching closer, and a Primitive token spans
\* exactly the bytes of the literal or number.
C9_TokenBoundaries ==
  (Success /\ ~tokens_null) =>
    \A i \in 1..Len(tokens) :
      LET t == tokens[i] IN
      IF t.type = JSTOK_STRING
        THEN /\ t.start >= 1
             /\ json[t.start] = "\""
             /\ json[t.end + 1] = "\""
             /\ RefChars(json, t.start + 1) = t.end + 2
      ELSE IF IsContainer(t)
        THEN /\ json[t.start + 1] = (IF t.type = JSTOK_OBJECT THEN "{" ELSE "[")
             /\ t.end >= 1
             /\ json[t.end] = (IF t.type = JSTOK_OBJECT THEN "}" ELSE "]")
             /\ RefValue(json, t.start + 1) = t.end + 1
      ELSE /\ json[t.start + 1] \notin {"\"", "[", "{"}
           /\ RefValue(json, t.start + 1) = t.end + 1
           /\ t.end > t.start
           /\ ~jstok_is_delim(json[t.end])
           /\ t.end < json_len => jstok_is_delim(json[t.end + 1])

\* C9 witness: a successful parse holding a string with an escape, a number
\* followed by whitespace, and a container closed before the end of the bytes
C9_Witness ==
  /\ Success /\ ~tokens_null
  /\ \E i \in 1..Len(tokens) :
       /\ IsContainer(tokens[i]) /\ tokens[i].end < json_len
       /\ \E j \in 1..Len(tokens) :
            /\ tokens[j].type = JSTOK_PRIMITIVE /\ Inside(j, i)
            /\ jstok_is_space(json[tokens[j].end + 1])
  /\ \E i \in 1..Len(tokens) :
       /\ tokens[i].type = JSTOK_STRING
       /\ \E k \in (tokens[i].start + 1)..tokens[i].end : json[k] = "\\"

\* C10: in the tokens of a successful parse the direct children of every
\* Object token come in the order key, value, key, value, ..., and every key
\* is a String token.
C10_ObjectLayout ==
  (Success /\ ~tokens_null) =>
    \A i \in 1..Len(tokens) :
      tokens[i].type = JSTOK_OBJECT =>
        LET ch == DirectChildren(i) IN
        /\ Len(ch) % 2 = 0
        /\ \A k \in 1..Len(ch) :
             /\ k < Len(ch) => FirstByte(tokens[ch[k]]) < FirstByte(tokens[ch[k + 1]])
             /\ k % 2 = 1 =>
                  LET key == tokens[ch[k]]
                      colon == RefWs(json, AfterByte(key) + 1)
                  IN /\ key.type = JSTOK_STRING
                     /\ json[colon] = ":"
                     /\ RefWs(json, colon + 1) = FirstByte(tokens[ch[k + 1]]) + 1

\* C10 witness: a successful parse of an object with two pairs, one of whose
\* values is a container
C10_Witness ==
  /\ Success /\ ~tokens_null
  /\ \E i \in 1..Len(tokens) :
       /\ tokens[i].type = JSTOK_OBJECT /\ tokens[i].size = 2
       /\ Len(DirectChildren(i)) = 4
       /\ IsContainer(tokens[DirectChildren(i)[4]])

\* C11: token start offsets strictly increase with the token index, a
\* container's token comes before every token inside it, and toknext never
\* decreases from one jstok_parse call to the next on the same parser.
C11_TokenOrdering ==
  [][/\ \A i \in 1..Len(tokens') : \A j \in 1..Len(tokens') :
          /\ i < j => tokens'[i].start < tokens'[j].start
          /\ (IsContainer(tokens'[i]) /\ tokens'[i].end >= 0
              /\ tokens'[i].start < tokens'[j].start /\ tokens'[j].start < tokens'[i].end)
               => i < j
     /\ (call # "none" /\ call' # "none") => p'.toknext >= p.toknext
     /\ Len(tokens') = p'.toknext]_vars

\* C11 witness: a resumed call holds more tokens than a call with fewer bytes
\* left behind, among them a closed container with a child
C11_Witness ==
  /\ call = "resumed" /\ Len(tokens) >= 4
  /\ \E i \in 2..Len(tokens) :
       /\ IsContainer(tokens[i]) /\ tokens[i].size > 0 /\ tokens[i].end > 0
       /\ tokens[i + 1].start < tokens[i].end
  /\ \E n \in 1..(json_len - 1) :
       LET f == ParseFresh(json, n, strict, tokens_null, max_tokens, max_depth) IN
       /\ f.r = JSTOK_ERROR_PART
       /\ 0 < f.m.p.toknext /\ f.m.p.toknext < p.toknext

\* C12: when pos reaches json_len, jstok_parse returns Partial if a container
\* is open, Partial if no top-level value has been accepted (in strict and in
\* permissive builds), and toknext otherwise.
C12_EndOfBufferRule ==
  (call # "none" /\ p.pos = json_len) =>
    IF p.depth # 0 THEN ret = JSTOK_ERROR_PART
    ELSE IF ~p.root_done THEN ret = JSTOK_ERROR_PART
    ELSE ret = p.toknext

\* C12 outside the diverging case: the rule holds in a JSTOK_STRICT build, and
\* in a build without it except that 0 is returned when no top-level value
\* has been accepted.
C12_ApartFromNoValue ==
  (call # "none" /\ p.pos = json_len) =>
    IF p.depth # 0 THEN ret = JSTOK_ERROR_PART
    ELSE IF ~p.root_done THEN IF strict THEN ret = JSTOK_ERROR_PART
                                        ELSE ret = 0 /\ p.toknext = 0
    ELSE ret = p.toknext

\* The parser as a fresh jstok_parse of the first s bytes leaves it
Before(s) == ParseFresh(json, s, strict, tokens_null, max_tokens, max_depth)

\* The result b of a fresh parse of the first s bytes reaches byte s with the
\* bytes before it consumed: it stops at s without an error, and not by taking
\* a literal that ends with the buffer, which a further byte at s would touch
Reached(b, s) ==
  /\ b.m.p.pos = s
  /\ b.r = JSTOK_ERROR_PART \/ b.r >= 0
  /\ ~ /\ Len(b.m.toks) > 0
       /\ b.m.toks[Len(b.m.toks)].type = JSTOK_PRIMITIVE
       /\ b.m.toks[Len(b.m.toks)].end = s

\* jstok_accept_value takes a value in the state b of the parser
AcceptsValue(b) ==
  jstok_accept_value(b.m, Cx(json, json_len, strict, tokens_null, max_tokens, max_depth)).r = 0

\* The latest call met byte s where a value may start
ValueExpectedAt(s) == LET b == Before(s) IN Reached(b, s) /\ AcceptsValue(b)

\* The bytes passed from offset s on are exactly seq
PassedFrom(s, seq) ==
  /\ s + Len(seq) = json_len
  /\ SubSeq(json, s + 1, json_len) = seq

Literals == {LitTrue, LitFalse, LitNull}

\* C13: when true, false or null is matched completely and the buffer ends
\* right after it, the call reports Partial and emits no token for the literal.
C13_LiteralAtEndIsPartial ==
  call # "none" =>
    \A lit \in Literals : \A s \in 0..json_len :
      (PassedFrom(s, lit) /\ ValueExpectedAt(s)) =>
        /\ ret = JSTOK_ERROR_PART
        /\ p.toknext = Before(s).m.p.toknext

\* C13 (amended): when true, false or null is matched completely and the buffer
\* ends right after it, the literal is accepted: the call emits a Primitive
\* token spanning exactly the literal and moves pos to the end of the buffer,
\* returning the token count at depth 0 and Partial inside an open container.
\* Partial with no token and pos at the literal's first byte is reported when
\* the buffer ends before the literal's last byte.
C13_LiteralAtEndIsAccepted ==
  call # "none" =>
    \A lit \in Literals : \A s \in 0..json_len :
      /\ (PassedFrom(s, lit) /\ ValueExpectedAt(s)) =>
           /\ p.toknext = Before(s).m.p.toknext + 1
           /\ Len(tokens) = p.toknext
           /\ tokens[Len(tokens)] = [type |-> JSTOK_PRIMITIVE, start |-> s,
                                     end |-> json_len, size |-> 0]
           /\ p.pos = json_len
           /\ ret = IF p.depth = 0 THEN p.toknext ELSE JSTOK_ERROR_PART
      /\ \A k \in 1..(Len(lit) - 1) :
           (PassedFrom(s, SubSeq(lit, 1, k)) /\ ValueExpectedAt(s)) =>
             /\ ret = JSTOK_ERROR_PART
             /\ p.pos = s
             /\ tokens = Before(s).m.toks

\* C13 witness: a buffer that ends right after a literal inside an array; the
\* literal's token is there and the call returns Partial for the open array
C13_Witness ==
  /\ call # "none" /\ ret = JSTOK_ERROR_PART /\ p.depth > 0
  /\ \E lit \in Literals : \E s \in 1..json_len :
       /\ PassedFrom(s, lit) /\ ValueExpectedAt(s)
       /\ tokens[Len(tokens)] = [type |-> JSTOK_PRIMITIVE, start |-> s, end |-> json_len,
                                 size |-> 0]

\* The bytes seq are a number or the beginning of one: they make an RFC 8259
\* number as they are or with one more digit
NumberPrefix(seq) ==
  /\ seq # <<>>
  /\ \E c \in {<<>>, <<"0">>} : RefNumber(seq \o c, 1) = Len(seq) + Len(c) + 1

\* C14: when the buffer ends inside or right after a number (after '-', '.',
\* 'e'/'E' or its sign, or after the last digit of a complete-looking number),
\* jstok_parse returns Partial, emits no token for the number and leaves pos at
\* the number's first byte; a byte after the number that is neither a
\* delimiter nor a continuation of the number is Invalid at that byte.
C14_NumberNotCommittedAtEnd ==
  call # "none" =>
    \A s \in 0..(json_len - 1) :
      ((json[s + 1] = "-" \/ jstok_is_digit(json[s + 1])) /\ ValueExpectedAt(s)) =>
        /\ NumberPrefix(SubSeq(json, s + 1, json_len)) =>
             /\ ret = JSTOK_ERROR_PART
             /\ p.pos = s
             /\ p.toknext = Before(s).m.p.toknext
             /\ tokens = Before(s).m.toks
        /\ \A e \in (s + 1)..(json_len - 1) :
             ( /\ NumberPrefix(SubSeq(json, s + 1, e))
               /\ ~NumberPrefix(SubSeq(json, s + 1, e + 1))
               /\ ~jstok_is_delim(json[e + 1])
               /\ ~jstok_is_digit(json[e + 1]) ) =>
               /\ ret = JSTOK_ERROR_INVAL
               /\ p.error_pos = e

\* C14 witness: inside an array with tokens already emitted, the buffer ends
\* right after the last digit of a complete number of several bytes
C14_Witness ==
  /\ call # "none" /\ ret = JSTOK_ERROR_PART /\ p.depth > 0 /\ p.toknext >= 2
  /\ \E s \in 1..(json_len - 2) :
       /\ ValueExpectedAt(s)
       /\ RefNumber(SubSeq(json, s + 1, json_len), 1) = json_len - s + 1
       /\ p.pos = s

\* Bytes [s, e) are a '0' followed by one or more digits
ZeroLedRun(s, e) ==
  /\ e >= s + 2 /\ e <= json_len
  /\ json[s + 1] = "0"
  /\ \A k \in (s + 2)..e : jstok_is_digit(json[k])

\* C15: without JSTOK_STRICT a run of digits after a leading '0' is tolerated:
\* `01` at the end of the buffer returns Partial, and `01` followed by a
\* delimiter is accepted as one Primitive token.
C15_PermissiveLeadingZeros ==
  (~strict /\ call # "none") =>
    \A s \in 0..(json_len - 2) :
      (json[s + 1] = "0" /\ ValueExpectedAt(s)) =>
        /\ ZeroLedRun(s, json_len) => ret = JSTOK_ERROR_PART
        /\ \A e \in (s + 2)..(json_len - 1) :
             (ZeroLedRun(s, e) /\ jstok_is_delim(json[e + 1])) =>
               \E i \in 1..Len(tokens) :
                 tokens[i] = [type |-> JSTOK_PRIMITIVE, start |-> s, end |-> e, size |-> 0]

\* C16: with JSTOK_STRICT, a number whose integer part is '0' followed by
\* another digit, with or without a minus sign, returns Invalid with error_pos
\* at the digit following the zero.
C16_StrictLeadingZeros ==
  (strict /\ call # "none") =>
    \A s \in 0..(json_len - 2) : \A z \in {s, s + 1} :
      ( /\ z = s \/ json[s + 1] = "-"
        /\ z + 1 < json_len
        /\ json[z + 1] = "0" /\ jstok_is_digit(json[z + 2])
        /\ ValueExpectedAt(s) ) =>
        /\ ret = JSTOK_ERROR_INVAL
        /\ p.error_code = JSTOK_ERROR_INVAL
        /\ p.error_pos = z + 1

\* C16 witness: a strict parse met `-0` followed by a digit inside a container
\* and reported Invalid at the digit
C16_Witness ==
  /\ strict /\ call # "none" /\ ret = JSTOK_ERROR_INVAL /\ p.depth > 0
  /\ \E s \in 1..(json_len - 3) :
       /\ ValueExpectedAt(s)
       /\ json[s + 1] = "-" /\ json[s + 2] = "0" /\ jstok_is_digit(json[s + 3])
       /\ p.error_pos = s + 2

\* A fresh parse of the first s bytes returned a count: a root value is
\* complete and the parser is at depth 0, at byte s
RootDoneAt(s) ==
  LET b == Before(s) IN
  /\ b.r >= 1
  /\ Reached(b, s)
  /\ b.m.p.depth = 0 /\ b.m.p.root_done

\* A byte that starts a value for the driver: not whitespace, not a comma,
\* colon or closer
IsValueByte(c) == ~jstok_is_space(c) /\ c \notin {",", ":", "]", "}"}

\* C17: with JSTOK_STRICT, once one top-level value has been accepted, a
\* further value byte at depth 0 returns Invalid at that byte, while trailing
\* whitespace after the root is accepted with the same count and tokens.
C17_StrictSingleRoot ==
  (strict /\ call # "none") =>
    \A s \in 1..(json_len - 1) :
      RootDoneAt(s) =>
        /\ IsValueByte(json[s + 1]) =>
             /\ ret = JSTOK_ERROR_INVAL
             /\ p.error_pos = s
             /\ p.toknext = Before(s).r
        /\ (\A k \in (s + 1)..json_len : jstok_is_space(json[k])) =>
             /\ ret = Before(s).r
             /\ tokens = Before(s).m.toks
             /\ p.pos = json_len

\* C17 witness: a strict parse that completed a root container, skipped
\* whitespace and refused the container that follows
C17_Witness ==
  /\ strict /\ call # "none" /\ ret = JSTOK_ERROR_INVAL
  /\ \E s \in 3..(json_len - 1) :
       /\ RootDoneAt(s) /\ jstok_is_space(json[s])
       /\ json[s + 1] \in {"[", "{"}
       /\ p.error_pos = s
       /\ IsContainer(tokens[1]) /\ tokens[1].end = s - 1

KeyExpectedAt(s) ==
  LET b == Before(s) IN
  /\ Reached(b, s)
  /\ b.r = JSTOK_ERROR_PART
  /\ jstok_accept_key(b.m).r = 0

\* What can follow a string cut before its closing quote, right after a
\* backslash, or inside the hex digits of \uXXXX, to close it
StringCompletions ==
  { <<"\"">>, <<"n", "\"">>, <<"0", "\"">>, <<"0", "0", "\"">>,
    <<"0", "0", "0", "\"">>, <<"0", "0", "0", "0", "\"">> }

\* The buffer ends inside the string whose opening quote is byte s
StringCutAt(s) ==
  /\ s < json_len /\ json[s + 1] = "\""
  /\ \E c \in StringCompletions :
       RefChars(SubSeq(json, s + 2, json_len) \o c, 1) = json_len - s - 1 + Len(c) + 1

\* C19: when the buffer ends inside a string (before the closing quote, right
\* after a backslash, or inside the hex digits of \uXXXX), jstok_parse returns
\* Partial with pos at the string's opening quote, and toknext, depth, the
\* frames and all tokens are as before the string was scanned, for keys and
\* values alike.
C19_StringPartialRewinds ==
  call # "none" =>
    \A s \in 0..(json_len - 1) :
      (StringCutAt(s) /\ (ValueExpectedAt(s) \/ KeyExpectedAt(s))) =>
        /\ ret = JSTOK_ERROR_PART
        /\ p.pos = s
        /\ p.toknext = Before(s).m.p.toknext
        /\ p.depth = Before(s).m.p.depth
        /\ p.stack = Before(s).m.p.stack
        /\ p.root_done = Before(s).m.p.root_done
        /\ tokens = Before(s).m.toks

\* C19 witness: the buffer ends inside the hex digits of a \u escape of a key,
\* and the call returned Partial with pos back at the key's opening quote
C19_Witness ==
  /\ call # "none" /\ ret = JSTOK_ERROR_PART /\ p.depth > 0
  /\ \E s \in 1..(json_len - 4) :
       /\ KeyExpectedAt(s) /\ StringCutAt(s)
       /\ json[s + 2] = "\\" /\ json[s + 3] = "u" /\ json_len <= s + 6
       /\ p.pos = s

Openers == {"[", "{"}
Closers == {"]", "}"}

\* The deepest nesting of a byte string without brackets inside strings:
\* the highest count of openers minus closers over its prefixes
RECURSIVE NestingFrom(_, _, _, _)
NestingFrom(seq, k, level, deepest) ==
  IF k > Len(seq) THEN deepest
  ELSE LET l == IF seq[k] \in Openers THEN level + 1
                ELSE IF seq[k] \in Closers THEN level - 1
                ELSE level
       IN NestingFrom(seq, k + 1, l, IF l > deepest THEN l ELSE deepest)

Nesting(seq) == NestingFrom(seq, 1, 0, 0)

\* C20: a JSON text nesting at most JSTOK_MAX_DEPTH containers, exactly
\* JSTOK_MAX_DEPTH included, parses successfully; the opener that would create
\* nesting JSTOK_MAX_DEPTH + 1 makes jstok_parse return Depth with error_pos at
\* that opener, and no other byte does; depth never exceeds JSTOK_MAX_DEPTH and
\* the frame stack holds exactly depth frames, at indices below
\* JSTOK_MAX_DEPTH.
C20_DepthBoundary ==
  /\ p.depth <= max_depth
  /\ Len(p.stack) = p.depth
  /\ call # "none" =>
       /\ ( /\ IsJSONText(Passed)
            /\ Nesting(Passed) <= max_depth
            /\ ~jstok_is_digit(json[json_len]) ) => ret >= 1
       /\ \A s \in 0..(json_len - 1) :
            (json[s + 1] \in Openers /\ ValueExpectedAt(s)) =>
              IF Before(s).m.p.depth = max_depth
                THEN /\ ret = JSTOK_ERROR_DEPTH
                     /\ p.error_code = JSTOK_ERROR_DEPTH
                     /\ p.error_pos = s
                ELSE ~(ret = JSTOK_ERROR_DEPTH /\ p.error_pos = s)
       /\ ret = JSTOK_ERROR_DEPTH =>
            /\ p.depth = max_depth
            /\ p.error_pos < json_len /\ json[p.error_pos + 1] \in Openers
            /\ Nesting(SubSeq(json, 1, p.error_pos + 1)) = max_depth + 1

\* C20 witness: a build with a nesting limit of two or more met an opener with
\* the stack full, inside an object, and returned Depth at that opener
C20_Witness ==
  /\ call # "none" /\ ret = JSTOK_ERROR_DEPTH /\ max_depth >= 2
  /\ p.depth = max_depth
  /\ p.stack[1].type = JSTOK_OBJECT
  /\ \E s \in 1..(json_len - 1) :
       /\ ValueExpectedAt(s) /\ json[s + 1] \in Openers
       /\ Before(s).m.p.depth = max_depth
       /\ p.error_pos = s

\* A text nesting exactly JSTOK_MAX_DEPTH containers parsed successfully
C20_ExactDepthParsed ==
  /\ call # "none" /\ ret >= 1 /\ max_depth = MaxNest
  /\ IsJSONText(Passed) /\ Nesting(Passed) = max_depth

\* The number of tokens the bytes passed need: the count a fresh parser
\* returns for them in count-only mode
TokensNeeded == ParseFresh(json, json_len, strict, TRUE, 0, max_depth).r

\* C21: for an input that needs N tokens, jstok_parse with a token array of
\* capacity N returns N, and with capacity N - 1 returns NoMem.
C21_TokenCapacityBoundary ==
  (call # "none" /\ TokensNeeded >= 1) =>
    /\ max_tokens = TokensNeeded => ret = TokensNeeded /\ Len(tokens) = TokensNeeded
    /\ max_tokens = TokensNeeded - 1 =>
         /\ ret = JSTOK_ERROR_NOMEM
         /\ Len(tokens) = max_tokens

\* C21 witness: a resumed call on an input that needs five tokens, given an
\* array of four, returned NoMem with the four tokens written
C21_Witness ==
  /\ call = "resumed" /\ TokensNeeded = 5 /\ max_tokens = 4
  /\ ret = JSTOK_ERROR_NOMEM /\ p.toknext = 4 /\ Len(tokens) = 4

\* A call given an array of exactly the capacity needed returned the count
C21_ExactCapacityParsed ==
  /\ call # "none" /\ TokensNeeded = 5 /\ max_tokens = 5 /\ ret = 5

\* C22: after every jstok_parse call, error_code equals the return value when
\* the return is negative, with error_pos an offset of the bytes passed, and
\* error_code is 0 with error_pos = -1 when the return is non-negative; the
\* error fields of the call before do not survive.
C22_ErrorReporting ==
  call # "none" =>
    /\ ret \in {JSTOK_ERROR_NOMEM, JSTOK_ERROR_INVAL, JSTOK_ERROR_PART, JSTOK_ERROR_DEPTH} =>
         /\ p.error_code = ret
         /\ p.error_pos >= 0 /\ p.error_pos <= json_len
    /\ ret >= 0 => p.error_code = 0 /\ p.error_pos = -1

\* C22 witness: a call that followed a Partial call returned a count with the
\* error fields cleared
C22_Witness ==
  /\ call = "resumed" /\ ret >= 2
  /\ p.error_code = 0 /\ p.error_pos = -1

\* The buffer j with every byte from offset n on replaced by c
Fill(j, n, c) == [i \in 1..Len(j) |-> IF i <= n THEN j[i] ELSE c]

\* Bytes that would change the outcome if read beyond the length passed,
\* next to the bytes the buffer holds there: a digit, a quote
BeyondBytes == {"1", "\""}

\* C23: jstok_parse reads the input only at offsets in [0, json_len): whatever
\* bytes lie at json_len and beyond, a call leaves the same parser, tokens and
\* return value; and it returns a non-negative count or one of NoMem, Invalid,
\* Partial, Depth.
C23_NoOutOfBoundsRead ==
  [][call' # "none" =>
       /\ \A c \in BeyondBytes :
            json_len' < Len(json) =>
            jstok_parse([p |-> p, toks |-> tokens],
                        Cx(Fill(json, json_len', c), json_len', strict, tokens_null,
                           max_tokens, max_depth))
              = [m |-> [p |-> p', toks |-> tokens'], r |-> ret']
       /\ ret' >= 0 \/ ret' \in {JSTOK_ERROR_NOMEM, JSTOK_ERROR_INVAL, JSTOK_ERROR_PART,
                                 JSTOK_ERROR_DEPTH}]_vars

\* C23 witness: a call passed fewer bytes than the buffer holds stopped inside
\* a number whose digits go on beyond the length passed
C23_Witness ==
  /\ call # "none" /\ ret = JSTOK_ERROR_PART
  /\ json_len >= 2 /\ json_len < Len(json)
  /\ jstok_is_digit(json[json_len]) /\ jstok_is_digit(json[json_len + 1])
  /\ p.error_pos = json_len

\* The offsets of the '\n' bytes of b in [s, l)
NewlinesIn(b, s, l) == {i \in s..(l - 1) : b[i + 1] = "\n"}

SetMin(S) == CHOOSE x \in S : \A y \in S : x <= y
SetMax(S) == CHOOSE x \in S : \A y \in S : x >= y

\* The line [s, e) of b begins with the bytes data:
BeginsData(b, s, e) == e - s >= 5 /\ SubSeq(b, s + 1, s + 5) = DataPrefix

\* The complete data lines of b[0, l) from the line that starts at s on, each
\* as [line |-> offset of its first byte, nl |-> offset of its '\n']
RECURSIVE DataLines(_, _, _)
DataLines(b, l, s) ==
  IF NewlinesIn(b, s, l) = {} THEN <<>>
  ELSE LET e == SetMin(NewlinesIn(b, s, l)) IN
       (IF BeginsData(b, s, e) THEN <<[line |-> s, nl |-> e]>> ELSE <<>>)
         \o DataLines(b, l, e + 1)

\* The start of the line that holds offset e, for a cursor that started at q
LineStart(b, q, e) == SetMax({q} \cup {i + 1 : i \in NewlinesIn(b, q, e)})

\* Bytes without a trailing '\r', and without one leading space
DropCR(seq) ==
  IF seq # <<>> /\ seq[Len(seq)] = "\r" THEN SubSeq(seq, 1, Len(seq) - 1) ELSE seq
DropSpace(seq) ==
  IF seq # <<>> /\ seq[1] = " " THEN SubSeq(seq, 2, Len(seq)) ELSE seq

\* C24: a jstok_sse_next call entered with the cursor inside the visible
\* buffer returns Data for the first complete line at or after the cursor that
\* begins with data:, skipping every other line, and leaves the cursor after
\* that line's '\n'; it returns NeedMore when there is no such line.  A caller
\* that starts at 0 so receives the data lines of the buffer in order, each
\* once.
C24_DataLineSelection ==
  [][(sse_call' = "called" /\ sse_pos <= len') =>
       /\ IF DataLines(buf, len', sse_pos) = <<>>
            THEN sse_ret' = 0
            ELSE /\ sse_ret' = 1
                 /\ sse_pos' = DataLines(buf, len', sse_pos)[1].nl + 1
                 /\ out'.p >= DataLines(buf, len', sse_pos)[1].line + 5
                 /\ out'.p + out'.n <= DataLines(buf, len', sse_pos)[1].nl
       /\ pos_in = 0 =>
            /\ Len(spans') <= Len(DataLines(buf, Len(buf), 0))
            /\ \A k \in 1..Len(spans') :
                 /\ spans'[k].p >= DataLines(buf, Len(buf), 0)[k].line + 5
                 /\ spans'[k].p + spans'[k].n <= DataLines(buf, Len(buf), 0)[k].nl]_vars

\* C24 witness: a caller that started at 0 received a data line that follows a
\* line that is not one, and is at the end of the buffer
C24_Witness ==
  /\ sse_call = "called" /\ pos_in = 0 /\ sse_ret = 1
  /\ Len(spans) = 1 /\ sse_pos = Len(buf)
  /\ DataLines(buf, Len(buf), 0)[1].line > 0

\* C25: on Data, the span is the line's bytes after data:, without the '\n'
\* and a '\r' right before it, and without one leading space (a second space
\* is kept); data: alone and data: with one space give a span of length 0.
C25_PayloadSpan ==
  (sse_call = "called" /\ sse_ret = 1) =>
    LET e == sse_pos - 1
        s == LineStart(buf, pos_in, e)
        rest == SubSeq(buf, s + 6, e)
    IN /\ buf[e + 1] = "\n"
       /\ BeginsData(buf, s, e)
       /\ SubSeq(buf, out.p + 1, out.p + out.n) = DropSpace(DropCR(rest))
       /\ out.p + out.n = s + 5 + Len(DropCR(rest))
       /\ rest \in {<<>>, <<" ">>, <<"\r">>, <<" ", "\r">>} => out.n = 0

\* C25 witness: the span of a data line with two spaces after the colon and a
\* '\r' before the '\n' keeps the second space and leaves the '\r' out
C25_Witness ==
  /\ sse_call = "called" /\ sse_ret = 1
  /\ SubSeq(buf, out.p - 1, out.p + 1) = <<":", " ", " ">>
  /\ \E k \in 0..1 : SubSeq(buf, out.p + out.n + 1, out.p + out.n + 1 + k)
                       \in {<<"\n">>, <<"\r", "\n">>}
  /\ \E t \in 1..Len(spans) : spans[t].n = 0

\* C26: a jstok_sse_next call entered with the cursor inside the visible
\* buffer that finds no '\n' from the start of the current line to the length
\* returns NeedMore; whenever it returns NeedMore the cursor is at the start
\* of the incomplete line: not before the cursor it was entered with, right
\* after the last '\n' of the visible buffer if lines were consumed, and never
\* inside or past the incomplete line.
C26_NeedMoreResumePoint ==
  [][(sse_call' = "called" /\ sse_pos <= len') =>
       /\ NewlinesIn(buf, sse_pos, len') = {} => sse_ret' = 0 /\ sse_pos' = sse_pos
       /\ sse_ret' = 0 =>
            /\ sse_pos' = LineStart(buf, sse_pos, len')
            /\ sse_pos' >= sse_pos /\ sse_pos' <= len'
            /\ NewlinesIn(buf, sse_pos', len') = {}
            /\ out' = out]_vars

\* C26 witness: a call skipped a complete line and returned NeedMore with the
\* cursor at the start of the incomplete line that follows, short of the
\* length
C26_Witness ==
  /\ sse_call = "called" /\ sse_ret = 0 /\ pos_in = 0
  /\ sse_pos > 0 /\ sse_pos < len /\ spans = <<>>
  /\ buf[sse_pos] = "\n"

\* C27: a jstok_sse_next call entered with the cursor beyond the length
\* returns NeedMore with the cursor clamped to the length.
C27_PosClamped ==
  [][(sse_call' = "called" /\ sse_pos > len') =>
       sse_ret' = 0 /\ sse_pos' = len']_vars

\* The spans a caller receives that calls jstok_sse_next on b[0, l) from
\* cursor q until it returns NeedMore
RECURSIVE Drain(_, _, _, _)
DrainNext(b, l, acc, res) ==
  IF res.r = 1 THEN Drain(b, l, [res EXCEPT !.r = 0], Append(acc, res.out)) ELSE acc
Drain(b, l, at, acc) == DrainNext(b, l, acc, jstok_sse_next(b, l, at.pos, at.out))

\* C28: for a caller that starts at 0 and passes non-decreasing lengths with
\* one cursor, whenever a call returns NeedMore the spans received so far are
\* exactly those of one pass over the visible buffer; at the full length they
\* are those of one pass over the complete buffer.
C28_FragmentationEquivalence ==
  (sse_call = "called" /\ pos_in = 0 /\ sse_ret = 0) =>
    spans = Drain(buf, len, [r |-> 0, pos |-> 0, out |-> [p |-> 0, n |-> 0]], <<>>)

\* C28 witness: a caller that started at 0 has received one span and rests at
\* the start of an incomplete line, with part of that line visible and part of
\* the buffer not yet visible
C28_Witness ==
  /\ sse_call = "called" /\ pos_in = 0 /\ sse_ret = 0
  /\ len < Len(buf) /\ sse_pos < len /\ Len(spans) = 1
  /\ spans[1].n > 0

\* The parser as a fresh jstok_parse leaves it when the first s bytes are
\* followed by a space, which ends a number or literal as the byte at s would
AtByte(s) ==
  ParseFresh(SubSeq(json, 1, s) \o <<" ">>, s + 1, strict, tokens_null, max_tokens, max_depth)

\* The parse b of the first s bytes and a space consumed them all: the driver
\* loop examines byte s next
MetAt(b, s) == b.m.p.pos = s + 1 /\ (b.r = JSTOK_ERROR_PART \/ b.r >= 0)

\* The transition table: byte c is accepted with the parser in state b
TableAccepts(b, c) ==
  /\ HasTop(b.m)
  /\ \/ c = ":" /\ Top(b.m).type = JSTOK_OBJECT /\ Top(b.m).st = JSTOK_ST_OBJ_COLON
     \/ c = "," /\ Top(b.m).st \in {JSTOK_ST_OBJ_COMMA_OR_END, JSTOK_ST_ARR_COMMA_OR_END}
     \/ c = "}" /\ Top(b.m).type = JSTOK_OBJECT
                /\ Top(b.m).st \in {JSTOK_ST_OBJ_KEY_OR_END, JSTOK_ST_OBJ_COMMA_OR_END}
     \/ c = "]" /\ Top(b.m).type = JSTOK_ARRAY
                /\ Top(b.m).st \in {JSTOK_ST_ARR_VALUE_OR_END, JSTOK_ST_ARR_COMMA_OR_END}

\* The transition table: the parser a after byte c was accepted in state b
TableMoves(b, c, a) ==
  /\ a.m.p.pos = b.m.p.pos
  /\ a.r = JSTOK_ERROR_PART \/ a.r >= 0
  /\ IF c \in {"}", "]"} THEN a.m.p.depth = b.m.p.depth - 1
     ELSE /\ a.m.p.depth = b.m.p.depth
          /\ Top(a.m).type = Top(b.m).type
          /\ Top(a.m).st = IF c = ":" THEN JSTOK_ST_OBJ_VALUE
                           ELSE IF Top(b.m).type = JSTOK_OBJECT THEN JSTOK_ST_OBJ_KEY
                           ELSE JSTOK_ST_ARR_VALUE

StructuralBytes == {":", ",", "}", "]"}

TopSize(m) ==
  IF HasTop(m) /\ Top(m).tok >= 0 /\ Top(m).tok < Len(m.toks)
    THEN m.toks[Top(m).tok + 1].size
    ELSE 0

\* Machine m holds what machine b held of the token count, the enclosing
\* container's sub-state, root_done and depth
SameCounts(m, b) == m.p.toknext = b.p.toknext
SameDepth(m, b) == m.p.depth = b.p.depth
SameRoot(m, b) == m.p.root_done = b.p.root_done
SameFrame(m, b) == HasTop(b) => (HasTop(m) /\ Top(m).st = Top(b).st)
SameSize(m, b) == TopSize(m) = TopSize(b)

\* The offset of the first byte of the value that was rejected at error_pos:
\* the last offset up to error_pos at which the driver loop examines a byte
RejectedStart == SetMax({s \in 0..p.error_pos : MetAt(AtByte(s), s)})

\* C30: when jstok_parse returns NoMem or Depth, toknext, the enclosing
\* container's size and sub-state, root_done and depth are what they were
\* right before the first byte of the rejected value was examined.
C30_LimitsBeforeMutation ==
  (call # "none" /\ ret \in {JSTOK_ERROR_NOMEM, JSTOK_ERROR_DEPTH}) =>
    /\ SameCounts([p |-> p, toks |-> tokens], AtByte(RejectedStart).m)
    /\ SameDepth([p |-> p, toks |-> tokens], AtByte(RejectedStart).m)
    /\ SameRoot([p |-> p, toks |-> tokens], AtByte(RejectedStart).m)
    /\ SameFrame([p |-> p, toks |-> tokens], AtByte(RejectedStart).m)
    /\ SameSize([p |-> p, toks |-> tokens], AtByte(RejectedStart).m)

\* The parser p as a count-only session driven through the same calls holds
\* it: every frame's tok is -1
CountOnly(q) ==
  [q EXCEPT !.stack = [i \in 1..Len(q.stack) |-> [q.stack[i] EXCEPT !.tok = -1]]]

\* C31: a count-only session and a token-mode session, both fresh and driven
\* through the same lengths, return the same code at every call that does not
\* run out of token capacity and hold the same toknext, pos, depth, root_done
\* and error fields; the count-only session writes no token and its frames
\* have tok = -1.  Stated as a step: from the count-only counterpart of the
\* parser before a call, the count-only call gives the count-only counterpart
\* of the parser after it, and the same return value.
C31_CountOnlyAgreementAllPaths ==
  [][(call' # "none" /\ ~tokens_null /\ ret' # JSTOK_ERROR_NOMEM) =>
       jstok_parse([p |-> CountOnly(p), toks |-> <<>>],
                   Cx(json, json_len', strict, TRUE, max_tokens, max_depth))
         = [m |-> [p |-> CountOnly(p'), toks |-> <<>>], r |-> ret']]_vars

\* C31 witness: a resumed token-mode call failed as Invalid inside a
\* container after emitting tokens, and a count-only parse of the same bytes
\* fails alike with the same toknext
C31_Witness ==
  /\ call = "resumed" /\ ~tokens_null /\ ret = JSTOK_ERROR_INVAL
  /\ p.depth >= 1 /\ p.toknext >= 2
  /\ ParseFresh(json, json_len, strict, TRUE, max_tokens, max_depth).r = ret
  /\ ParseFresh(json, json_len, strict, TRUE, max_tokens, max_depth).m.p.toknext = p.toknext
  /\ ParseFresh(json, json_len, strict, TRUE, max_tokens, max_depth).m.toks = <<>>

\* The token indices the frames on the stack refer to
FrameToks == {p.stack[i].tok : i \in 1..p.depth}

\* The closing byte of a container of the given kind
CloserOf(type) == IF type = JSTOK_OBJECT THEN "}" ELSE "]"

\* The frames refer to distinct container tokens, at growing indices from the
\* bottom up, each of the frame's kind and still open
FramesOpen ==
  /\ \A i \in 1..p.depth :
       /\ p.stack[i].tok >= 0 /\ p.stack[i].tok < Len(tokens)
       /\ tokens[p.stack[i].tok + 1].type = p.stack[i].type
       /\ tokens[p.stack[i].tok + 1].end = -1
  /\ \A i, k \in 1..p.depth : i < k => p.stack[i].tok < p.stack[k].tok

\* Every container token no frame refers to ends one past its closer
OthersClosed ==
  \A k \in 1..Len(tokens) :
    (IsContainer(tokens[k]) /\ (k - 1) \notin FrameToks) =>
      /\ tokens[k].end > tokens[k].start /\ tokens[k].end <= json_len
      /\ json[tokens[k].end] = CloserOf(tokens[k].type)

\* C32: in token mode, at every return of jstok_parse, the frames refer to
\* distinct open container tokens of their kind at growing indices, and every
\* other container token ends one past its closer; a call writes the end of a
\* container only where it was -1, with a closer the call itself consumed.
C32_OpenClosedContainers ==
  [][(call' # "none" /\ ~tokens_null) =>
       /\ FramesOpen'
       /\ OthersClosed'
       /\ \A k \in 1..Len(tokens) :
            (IsContainer(tokens[k]) /\ tokens'[k].end # tokens[k].end) =>
              /\ tokens[k].end = -1
              /\ tokens'[k].end > p.pos /\ tokens'[k].end <= p'.pos]_vars

\* C32 apart from the diverging case: the claim holds at every return other
\* than JSTOK_ERROR_DEPTH.
C32_ApartFromDepth ==
  [][(call' # "none" /\ ~tokens_null /\ ret' # JSTOK_ERROR_DEPTH) =>
       /\ FramesOpen'
       /\ OthersClosed'
       /\ \A k \in 1..Len(tokens) :
            (IsContainer(tokens[k]) /\ tokens'[k].end # tokens[k].end) =>
              /\ tokens[k].end = -1
              /\ tokens'[k].end > p.pos /\ tokens'[k].end <= p'.pos]_vars

\* The machines a jstok_parse call goes through: the machine at entry, then
\* the machine after each iteration of the driver loop, then the machine at
\* return
RECURSIVE LoopStates(_, _)
LoopStatesAfter(st, cx) == IF st.r < 0 THEN <<st.m>> ELSE LoopStates(st.m, cx)
LoopStates(m, cx) ==
  <<m>> \o
    (IF m.p.pos < cx.json_len
       THEN IF jstok_is_space(At(cx, m.p.pos))
              THEN LoopStates([m EXCEPT !.p.pos = @ + 1], cx)
              ELSE LoopStatesAfter(DriverStep(m, cx), cx)
       ELSE <<EndOfBuffer(m, cx).m>>)

\* The token array b keeps every token of the array a: a string, a primitive
\* and a closed container whole, an open container in its type and start
KeepsTokens(a, b) ==
  /\ Len(b) >= Len(a)
  /\ \A k \in 1..Len(a) :
       IF IsContainer(a[k]) /\ a[k].end = -1
         THEN b[k].type = a[k].type /\ b[k].start = a[k].start
         ELSE b[k] = a[k]

\* The machines of the call that led to the next state
CallStates ==
  LoopStates([p |-> [p EXCEPT !.error_pos = -1, !.error_code = 0], toks |-> tokens],
             Cx(json, json_len', strict, tokens_null, max_tokens, max_depth))

\* The sequence tr of machines ends in machine m and keeps its tokens from
\* each machine to the next
EndsKeeping(tr, m) ==
  /\ tr[Len(tr)] = m
  /\ \A i \in 1..(Len(tr) - 1) : KeepsTokens(tr[i].toks, tr[i + 1].toks)

\* C33: from the entry of a jstok_parse call through each iteration of its
\* loop to its return, every string, primitive and closed container token
\* stays as it is, and an open container keeps its type and start; only the
\* size and end of open containers change.  The entry of a call is the return
\* of the call before, so this holds across calls too.
C33_TokenImmutability ==
  [][(call' # "none" /\ ~tokens_null) =>
       /\ EndsKeeping(CallStates, [p |-> p', toks |-> tokens'])
       /\ KeepsTokens(tokens, tokens')]_vars

\* C33 witness: a resumed call returned with a closed container, a string or
\* primitive, and an open container that has children, all but the last from
\* before the call
C33_Witness ==
  /\ call = "resumed" /\ ~tokens_null /\ p.depth >= 1
  /\ Len(tokens) >= 4
  /\ \E k \in 1..Len(tokens) : IsContainer(tokens[k]) /\ tokens[k].end # -1
  /\ \E k \in 1..Len(tokens) : IsContainer(tokens[k]) /\ tokens[k].end = -1 /\ tokens[k].size >= 2

Descendants(i) == {j \in 1..Len(tokens) : Inside(j, i)}

\* C35: jstok_skip returns count for an index outside [0, count); for any
\* token array, count and index inside it the result is beyond the index and
\* at most count, and is the same when the array holds nothing from index
\* count on; for the tokens of a successful parse it is i + 1 for a string or
\* primitive and i + 1 + the number of tokens inside it for a container.
C35_Skip ==
  skip_call = "called" =>
    /\ (skip_i < 0 \/ skip_i >= skip_count) => skip_ret = skip_count
    /\ (skip_i >= 0 /\ skip_i < skip_count) =>
         /\ skip_i < skip_ret /\ skip_ret <= skip_count
         /\ skip_ret = jstok_skip(tokens_null, SubSeq(skip_toks, 1, skip_count),
                                  skip_count, skip_i, max_depth)
         /\ (ret >= 0 /\ skip_toks = tokens /\ skip_count = Len(tokens)) =>
              skip_ret = IF IsContainer(tokens[skip_i + 1])
                           THEN skip_i + 1 + Cardinality(Descendants(skip_i + 1))
                           ELSE skip_i + 1

\* C35 witness: in the tokens of a successful parse, jstok_skip of an object
\* that is a member's value landed on the key that follows the object's last
\* descendant
C35_Witness ==
  /\ skip_call = "called" /\ ret >= 0 /\ skip_toks = tokens /\ skip_count = Len(tokens)
  /\ skip_i >= 1 /\ skip_ret < skip_count
  /\ tokens[skip_i + 1].type = JSTOK_OBJECT
  /\ Cardinality(Descendants(skip_i + 1)) >= 2
  /\ tokens[skip_ret + 1].type = JSTOK_STRING

\* C35 witness of a truncated array: the subtree runs past count and
\* jstok_skip returned count
C35_TruncatedSkip ==
  /\ skip_call = "called" /\ skip_count < Len(skip_toks)
  /\ skip_i >= 0 /\ skip_i + 1 < skip_count /\ skip_ret = skip_count
  /\ IsContainer(skip_toks[skip_i + 1])

C37_CursorInvariant ==
  [][call' # "none" =>
       /\ p'.pos >= p.pos
       /\ 0 <= p'.pos /\ p'.pos <= json_len'
       /\ ret' >= 0 => p'.pos = json_len']_vars

\* C37 witness: a resumed call returned Partial inside a container with
\* tokens emitted, pos rewound from the end of the bytes to the start of an
\* incomplete value at least two bytes before json_len
C37_Witness ==
  /\ call = "resumed" /\ ret = JSTOK_ERROR_PART
  /\ p.depth >= 1 /\ p.toknext >= 3
  /\ p.pos >= 2 /\ p.pos + 1 < json_len
  /\ p.error_pos = json_len

\* Machine m has written the slots [0, toknext) of the token array and no
\* other, toknext is within the capacity, and every frame, through which size
\* and end are written, refers to one of those slots
WithinCapacity(m) ==
  /\ 0 <= m.p.toknext /\ m.p.toknext <= max_tokens
  /\ Len(m.toks) = m.p.toknext
  /\ \A i \in 1..m.p.depth : m.p.stack[i].tok >= 0 /\ m.p.stack[i].tok < m.p.toknext

AllWithinCapacity(tr) == \A i \in 1..Len(tr) : WithinCapacity(tr[i])

\* C38: in token mode, at the entry of every jstok_parse call, after each
\* iteration of its loop and at its return, 0 <= toknext <= max_tokens, no
\* slot from max_tokens on has been written, and the frames refer only to
\* slots below toknext.
C38_TokenArrayWriteBound ==
  [][(call' # "none" /\ ~tokens_null) =>
       /\ AllWithinCapacity(CallStates)
       /\ WithinCapacity([p |-> p', toks |-> tokens'])]_vars

\* C38 witness: a call filled the token array to its capacity of at least
\* three, inside a container with children, and was refused the next token
C38_Witness ==
  /\ call # "none" /\ ~tokens_null /\ ret = JSTOK_ERROR_NOMEM
  /\ max_tokens >= 3 /\ p.toknext = max_tokens /\ Len(tokens) = max_tokens
  /\ p.depth >= 1 /\ TopSize([p |-> p, toks |-> tokens]) >= 2

\* C39: at every return of jstok_parse other than Invalid, depth > 0 implies
\* root_done; at every return root_done is false only with depth 0 and no
\* token emitted; and a Partial that stops at an incomplete value at the root
\* leaves root_done as it was before that value's first byte.
C39_RootDoneAtOpen ==
  call # "none" =>
    /\ (ret # JSTOK_ERROR_INVAL /\ p.depth > 0) => p.root_done
    /\ ~p.root_done => (p.depth = 0 /\ p.toknext = 0)
    /\ (ret = JSTOK_ERROR_PART /\ p.depth = 0 /\ p.pos < json_len) =>
         /\ MetAt(AtByte(p.pos), p.pos)
         /\ p.root_done = AtByte(p.pos).m.p.root_done
         /\ p.root_done = (p.toknext > 0)

\* C39 witness: a build without JSTOK_STRICT returned Partial on an incomplete
\* string at the root that follows a complete root container: root_done is
\* still true, as it was before the string
C39_Witness ==
  /\ call # "none" /\ ~strict /\ ret = JSTOK_ERROR_PART
  /\ p.depth = 0 /\ p.pos < json_len /\ json[p.pos + 1] = "\""
  /\ p.root_done /\ p.toknext >= 1 /\ IsContainer(tokens[1])

\* C39 witness of the open root: Partial inside the root container, whose
\* opener set root_done
C39_RootOpen ==
  /\ call # "none" /\ ret = JSTOK_ERROR_PART /\ p.depth = 1 /\ p.root_done
  /\ p.toknext = 1 /\ tokens[1].end = -1

\* C39 witness of the restored flag: Partial on an incomplete first value at
\* the root, root_done false again
C39_RootRestored ==
  /\ call # "none" /\ ret = JSTOK_ERROR_PART /\ p.depth = 0 /\ ~p.root_done
  /\ p.pos < json_len /\ ~jstok_is_space(json[p.pos + 1])

\* In the machines tr of a jstok_parse call with length n, every iteration of
\* the loop that did not return left pos beyond where it found it
Rising(tr) == \A i \in 1..(Len(tr) - 2) : tr[i + 1].p.pos > tr[i].p.pos

\* The loop iterations of the call with machines tr and length n: the steps
\* of tr apart from the code after the loop
Iterations(tr, n) == Len(tr) - 1 - (IF tr[Len(tr) - 1].p.pos >= n THEN 1 ELSE 0)

ParseTerminates(tr, n) ==
  /\ Rising(tr)
  /\ Iterations(tr, n) <= (IF n > tr[1].p.pos THEN n - tr[1].p.pos ELSE 0)

\* The cursors of a jstok_sse_next call on b[0, l) entered at start: the
\* cursor at entry, then the cursor at each recursive call
RECURSIVE SseCursors(_, _, _)
SseCursorsAfter(b, l, start, i) ==
  IF i < l /\ (LineLen(b, start, i) = 0
                 \/ jstok_str_prefix(b, start, LineLen(b, start, i), DataPrefix) = 0)
    THEN SseCursors(b, l, i + 1)
    ELSE <<>>
SseCursors(b, l, start) == <<start>> \o SseCursorsAfter(b, l, start, ScanNewline(b, l, start))

SseTerminates(cs, l) ==
  /\ \A i \in 1..(Len(cs) - 1) : cs[i + 1] > cs[i] /\ cs[i + 1] <= l
  /\ Len(cs) <= (IF l >= cs[1] THEN l - cs[1] + 1 ELSE 1)

\* C40: every iteration of the driver loop that does not return increases
\* pos, and a jstok_parse call runs at most json_len minus its entry pos
\* iterations; every recursive call of jstok_sse_next starts at a cursor
\* beyond the one before and at most at len, so a call recurses at most len
\* minus its entry cursor times.
C40_Termination ==
  [][/\ call' # "none" => ParseTerminates(CallStates, json_len')
     /\ sse_call' = "called" => SseTerminates(SseCursors(buf, len', sse_pos), len')]_vars

\* C40 witness for jstok_parse: a first call ran one loop iteration for each
\* of its four or more bytes, the last of which returned Invalid
C40_Witness ==
  /\ call = "first" /\ json_len >= 4 /\ ret = JSTOK_ERROR_INVAL
  /\ p.error_pos = json_len - 1
  /\ Len(LoopStates([p |-> jstok_init_p, toks |-> <<>>],
                    Cx(json, json_len, strict, tokens_null, max_tokens, max_depth)))
       = json_len + 1

\* C40 witness for jstok_sse_next: one call skipped two lines, recursing
\* twice, and returned NeedMore at the end of the buffer
C40_SseRecursed ==
  /\ sse_call = "called" /\ sse_ret = 0 /\ pos_in = 0 /\ spans = <<>>
  /\ len = Len(buf) /\ sse_pos = len
  /\ Len(SseCursors(buf, len, 0)) = 3

====
